---------------------------- MODULE Spec2Model ----------------------------
(***************************************************************************)
(* Model of the 2-D panel-method core of aeronauty.com                     *)
(* (lib/panels: geometry, solver, stream) as state machines.               *)
(*                                                                         *)
(* Numbers.  The code computes in IEEE doubles.  The geometry and the      *)
(* streamline tracer are modelled in fixed point: a real r is the integer  *)
(* round(r * Scale).  A NaN (0/0) is carried as a flag `nan` on the point  *)
(* or vector that holds it; every comparison with a NaN is false, as in    *)
(* IEEE arithmetic.  The linear solver is modelled in exact rationals.     *)
(***************************************************************************)
EXTENDS Integers, Sequences, FiniteSets, TLC

VARIABLES
    nacaParams,   \* argument of createAirfoilGeometry: [digits, nPoints, chord]
    panelParams,  \* argument of createAirfoilGeometry: [nPanels, epsilon]
    geo,          \* the call's progress and result: [pc, geometry]
    kutta,        \* what solvePanelMethod reads for the Kutta row (row n)
    lin,          \* solveLinearSystem inside solvePanelMethod: [pc, A, b,
                  \* regularization, augmented, k, x]
    panelSolution, \* what solvePanelMethod returns
    scene,        \* the arguments the streamline calls share: [geometry,
                  \* solution, flow]
    field,        \* generateStreamlineField: [pc, params, bounds, i,
                  \* traced, streamlines]
    trace,        \* traceStreamline: [pc, startPoint, params, points,
                  \* currentPoint, step, vel1, midPoint, vel2, complete]
                  \* and, for the record, iterations (loop bodies entered),
                  \* stop (why the loop ended), tried (the point tested last)
    validation,   \* validateSolution: [pc, solution, flow, isValid,
                  \* warnings]
    call,         \* a call of a pure function on its own: [pc, fn, ...]
    tab,          \* the PanelTab component: its state hooks
    store         \* the demo store, useDemoStore: the DemoState fields

geomVars == <<nacaParams, panelParams, geo, kutta>>

solveVars == <<lin, panelSolution>>

streamVars == <<scene, field, trace>>

callVars == <<validation, call, tab, store>>

vars == <<geomVars, solveVars, streamVars, callVars>>

---------------------------------------------------------------------------
(* Fixed-point arithmetic                                                  *)

Scale == 10 ^ 3

Abs(a) == IF a < 0 THEN -a ELSE a

Min(a, b) == IF a < b THEN a ELSE b

Max(a, b) == IF a > b THEN a ELSE b

\* a / b rounded to the nearest integer (b # 0)
DivR(a, b) ==
    LET q == (2 * Abs(a) + Abs(b)) \div (2 * Abs(b))
    IN  IF (a < 0) # (b < 0) THEN -q ELSE q

\* product of two fixed-point numbers
Mul(a, b) == DivR(a * b, Scale)

\* quotient of two fixed-point numbers (b # 0)
Quot(a, b) == DivR(a * Scale, b)

RECURSIVE IsqrtIter(_, _)
IsqrtIter(n, x) ==
    LET y == (x + n \div x) \div 2
    IN  IF y >= x THEN x ELSE IsqrtIter(n, y)

\* floor of the square root of a natural number
Isqrt(n) == IF n <= 0 THEN 0 ELSE IsqrtIter(n, Min(n, 46340))

\* Math.sqrt of a fixed-point number a >= 0
SqrtFx(a) == Isqrt(a * Scale)

\* Math.cos(Math.PI * i / h) for 0 <= i <= h, h > 0 (Bhaskara's rational
\* approximation, exact at 0, 1/3, 1/2, 2/3 and 1, error below 0.002)
RECURSIVE CosPi(_, _)
CosPi(i, h) ==
    IF 2 * i <= h
    THEN DivR(Scale * (h * h - 4 * i * i), h * h + i * i)
    ELSE -CosPi(h - i, h)

---------------------------------------------------------------------------
(* Strings are sequences of characters                                     *)

DigitChars == {"0", "1", "2", "3", "4", "5", "6", "7", "8", "9"}

DigitVal(c) ==
    CASE c = "0" -> 0 [] c = "1" -> 1 [] c = "2" -> 2 [] c = "3" -> 3
      [] c = "4" -> 4 [] c = "5" -> 5 [] c = "6" -> 6 [] c = "7" -> 7
      [] c = "8" -> 8 [] c = "9" -> 9

\* the pattern without its end anchor, /^\d{4}/
AcceptFourDigitPrefix(digits) ==
    /\ Len(digits) >= 4
    /\ \A i \in 1..4 : digits[i] \in DigitChars

\* /^\d{4}$/.test(digits)
IsFourDigits(digits) ==
    /\ Len(digits) = 4
    /\ \A i \in 1..4 : digits[i] \in DigitChars

\* element i of a JavaScript array (0-based)
At(arr, i) == arr[i + 1]

PiFx == (3142 * Scale) \div 1000

\* Math.atan(q) for a fixed-point ratio with |q| <= 1
AtanUnit(q) == Quot(q, Scale + DivR(28 * Mul(q, q), 100))

\* Math.atan2(y, x) in fixed-point radians
Atan2Fx(y, x) ==
    IF x = 0 /\ y = 0 THEN 0
    ELSE IF Abs(y) <= Abs(x)
         THEN LET a == AtanUnit(Quot(y, x))
              IN  IF x > 0 THEN a
                  ELSE IF y >= 0 THEN a + PiFx ELSE a - PiFx
         ELSE LET a == AtanUnit(Quot(x, y))
              IN  IF y > 0 THEN PiFx \div 2 - a ELSE -(PiFx \div 2) - a

---------------------------------------------------------------------------
(* Geometry generator: naca4, panelize, createAirfoilGeometry              *)

Point(px, py) == [x |-> px, y |-> py, nan |-> FALSE]

NaNPoint == [x |-> 0, y |-> 0, nan |-> TRUE]

\* const m, p, t of naca4
NacaM(digits) == DivR(DigitVal(digits[1]) * Scale, 100)

NacaP(digits) == DivR(DigitVal(digits[2]) * Scale, 10)

NacaT(digits) ==
    DivR((10 * DigitVal(digits[3]) + DigitVal(digits[4])) * Scale, 100)

\* const halfPoints
HalfPoints(nPoints) == nPoints \div 2

\* x[i] = chord * (1 - cos(beta_i)) / 2 with beta_i = PI * i / halfPoints
StationX(i, halfPoints, chord) ==
    DivR(chord * (Scale - CosPi(i, halfPoints)), 2 * Scale)

\* half-thickness yt at normalized station xc
ThicknessAt(xc, t, chord) ==
    LET xc2  == Mul(xc, xc)
        xc3  == Mul(xc2, xc)
        xc4  == Mul(xc3, xc)
        poly == DivR(2969 * SqrtFx(xc) - 1260 * xc - 3516 * xc2
                       + 2843 * xc3 - 1015 * xc4, 10000)
    IN  Mul(Mul(5 * t, chord), poly)

\* camber line yc and slope dyc_dx at xc; 0/0 when m # 0 and p = 0
CamberAt(xc, m, p, chord) ==
    IF m = 0 THEN [yc |-> 0, dyc |-> 0, nan |-> FALSE]
    ELSE IF xc <= p
         THEN IF p = 0
              THEN [yc |-> 0, dyc |-> 0, nan |-> TRUE]
              ELSE [yc  |-> Quot(Mul(Mul(m, chord),
                                     2 * Mul(p, xc) - Mul(xc, xc)), Mul(p, p)),
                    dyc |-> Quot(Mul(2 * m, p - xc), Mul(p, p)),
                    nan |-> FALSE]
         ELSE [yc  |-> Quot(Mul(Mul(m, chord),
                                (Scale - 2 * p) + 2 * Mul(p, xc) - Mul(xc, xc)),
                            Mul(Scale - p, Scale - p)),
               dyc |-> Quot(Mul(2 * m, p - xc), Mul(Scale - p, Scale - p)),
               nan |-> FALSE]

\* one loop body of naca4: the upper (or lower) surface point at station i
SurfacePoint(i, halfPoints, digits, chord, upper) ==
    IF halfPoints = 0 \/ chord = 0 THEN NaNPoint
    ELSE
    LET xi   == StationX(i, halfPoints, chord)
        xc   == Quot(xi, chord)
        yt   == ThicknessAt(xc, NacaT(digits), chord)
        cam  == CamberAt(xc, NacaM(digits), NacaP(digits), chord)
        hyp  == Isqrt(Scale * Scale + cam.dyc * cam.dyc)
        sinT == Quot(cam.dyc, hyp)
        cosT == Quot(Scale, hyp)
    IN  IF cam.nan THEN NaNPoint
        ELSE IF upper
             THEN Point(xi - Mul(yt, sinT), cam.yc + Mul(yt, cosT))
             ELSE Point(xi + Mul(yt, sinT), cam.yc - Mul(yt, cosT))

\* the point list naca4 returns for an accepted code: the first loop pushes
\* stations 0..halfPoints-1 (upper), the second halfPoints..0 (lower)
Naca4Points(digits, nPoints, chord) ==
    LET h == HalfPoints(nPoints)
    IN  [k \in 1..(2 * h + 1) |->
            IF k <= h
            THEN SurfacePoint(k - 1, h, digits, chord, TRUE)
            ELSE SurfacePoint(2 * h + 1 - k, h, digits, chord, FALSE)]

AnyNaN(points) == \E k \in 1..Len(points) : points[k].nan

RECURSIVE MaxX(_, _)
MaxX(points, k) ==
    IF k = 1 THEN points[1].x ELSE Max(points[k].x, MaxX(points, k - 1))

RECURSIVE MinX(_, _)
MinX(points, k) ==
    IF k = 1 THEN points[1].x ELSE Min(points[k].x, MinX(points, k - 1))

RECURSIVE MaxY(_, _)
MaxY(points, k) ==
    IF k = 1 THEN points[1].y ELSE Max(points[k].y, MaxY(points, k - 1))

RECURSIVE MinY(_, _)
MinY(points, k) ==
    IF k = 1 THEN points[1].y ELSE Min(points[k].y, MinY(points, k - 1))

\* a clamp to the number of points instead of the number of segments
PanelCountUpToPoints(points, nPanels) == Max(Min(nPanels, Len(points)), 0)

\* const nPanels of panelize
PanelCount(points, nPanels) == Max(Min(nPanels, Len(points) - 1), 0)

\* (sin(angle), -cos(angle))
NormalOf(tangent) == [x |-> tangent.y, y |-> -tangent.x]

\* one loop body of panelize: panel i (0-based) of the point loop
PanelAt(points, i, epsilon) ==
    LET p1      == At(points, i)
        p2      == At(points, (i + 1) % Len(points))
        dx      == p2.x - p1.x
        dy      == p2.y - p1.y
        length  == Isqrt(dx * dx + dy * dy)
        \* (cos(angle), sin(angle)) with angle = atan2(dy, dx)
        tangent == IF length = 0 THEN [x |-> Scale, y |-> 0]
                   ELSE [x |-> Quot(dx, length), y |-> Quot(dy, length)]
        normal  == NormalOf(tangent)
        chordNaN == AnyNaN(points)
        chordEst == MaxX(points, Len(points)) - MinX(points, Len(points))
        eps     == Mul(epsilon, chordEst)
        midX    == DivR(p1.x + p2.x, 2)
        midY    == DivR(p1.y + p2.y, 2)
    IN  IF p1.nan \/ p2.nan
        THEN [x1 |-> p1.x, y1 |-> p1.y, x2 |-> p2.x, y2 |-> p2.y,
              length |-> 0, angle |-> 0,
              tangent |-> [x |-> 0, y |-> 0], normal |-> [x |-> 0, y |-> 0],
              controlPoint |-> NaNPoint, nan |-> TRUE]
        ELSE [x1 |-> p1.x, y1 |-> p1.y, x2 |-> p2.x, y2 |-> p2.y,
              length |-> length, angle |-> Atan2Fx(dy, dx),
              tangent |-> tangent, normal |-> normal,
              controlPoint |-> IF chordNaN THEN NaNPoint
                               ELSE Point(midX - Mul(eps, normal.x),
                                          midY - Mul(eps, normal.y)),
              nan |-> FALSE]

Panelize(points, params) ==
    [k \in 1..PanelCount(points, params.nPanels) |->
        PanelAt(points, k - 1, params.epsilon)]

\* the object createAirfoilGeometry returns
AirfoilGeometry(points, panels, chord) ==
    [points |-> points, panels |-> panels, chord |-> chord,
     teUpperIndex |-> 0, teLowerIndex |-> Len(panels) - 1]

NoGeometry ==
    [points |-> <<>>, panels |-> <<>>, chord |-> 0,
     teUpperIndex |-> 0, teLowerIndex |-> 0]


---------------------------------------------------------------------------
(* Exact rationals for the linear solver.  A number is n/d with d > 0 in   *)
(* lowest terms; d = 0 marks a NaN.  Magnitudes are in units of 1e-14, the *)
(* solver's pivot threshold.                                               *)

RECURSIVE GCD(_, _)
GCD(a, b) == IF b = 0 THEN a ELSE GCD(b, a % b)

Rat(n, d) ==
    LET g == GCD(Abs(n), Abs(d))
        s == IF d < 0 THEN -1 ELSE 1
    IN  [n |-> (s * n) \div g, d |-> (s * d) \div g]

RInt(i) == [n |-> i, d |-> 1]

RNaN == [n |-> 0, d |-> 0]

RIsNaN(a) == a.d = 0

\* sums and products cancel common factors before they multiply
RAdd(a, b) ==
    IF RIsNaN(a) \/ RIsNaN(b) THEN RNaN
    ELSE LET g == GCD(a.d, b.d)
         IN  Rat(a.n * (b.d \div g) + b.n * (a.d \div g),
                 (a.d \div g) * b.d)

RNeg(a) == [n |-> -a.n, d |-> a.d]

RSub(a, b) == RAdd(a, RNeg(b))

RMul(a, b) ==
    IF RIsNaN(a) \/ RIsNaN(b) THEN RNaN
    ELSE IF a.n = 0 \/ b.n = 0 THEN [n |-> 0, d |-> 1]
    ELSE LET g1 == GCD(Abs(a.n), b.d)
             g2 == GCD(Abs(b.n), a.d)
         IN  [n |-> (a.n \div g1) * (b.n \div g2),
              d |-> (a.d \div g2) * (b.d \div g1)]

\* a / b; the solver divides by a pivot only, never by zero (0/0 is NaN)
RDiv(a, b) ==
    IF RIsNaN(a) \/ RIsNaN(b) \/ b.n = 0 THEN RNaN
    ELSE RMul(a, IF b.n < 0 THEN [n |-> -b.d, d |-> -b.n]
                 ELSE [n |-> b.d, d |-> b.n])

RAbs(a) == [n |-> Abs(a.n), d |-> a.d]

\* a < b and a > b; false when either is NaN
RLt(a, b) == ~RIsNaN(a) /\ ~RIsNaN(b) /\ a.n * b.d < b.n * a.d

RGt(a, b) == RLt(b, a)

---------------------------------------------------------------------------
(* solveLinearSystem and its caller solvePanelMethod                       *)

\* the literal 1e-14 of the singularity check, in units of 1e-14
PivotThreshold == 1

\* augmented[i][j], 0-based
Cell(matrix, i, j) == At(At(matrix, i), j)

\* sum of terms[1..k]
RECURSIVE RSum(_, _)
RSum(terms, k) ==
    IF k = 0 THEN RInt(0)
    ELSE CHOOSE total \in {RAdd(sum, term) : sum \in {RSum(terms, k - 1)},
                                             term \in {terms[k]}} : TRUE

\* [A|b] with the regularization added to the diagonal
Augment(A, b, regularization) ==
    LET n == Len(A)
    IN  [i \in 1..n |->
           [j \in 1..(n + 1) |->
              IF j = n + 1 THEN b[i]
              ELSE IF j = i THEN RAdd(A[i][j], regularization)
              ELSE A[i][j]]]

\* a pivot search that also moves on to a row whose entry is as great
RECURSIVE PivotScanLastGreatest(_, _, _, _)
PivotScanLastGreatest(augmented, k, i, maxRow) ==
    IF i >= Len(augmented) THEN maxRow
    ELSE PivotScanLastGreatest(
           augmented, k, i + 1,
           IF RLt(RAbs(Cell(augmented, i, k)),
                  RAbs(Cell(augmented, maxRow, k)))
           THEN maxRow ELSE i)

\* the pivot search: maxRow after the scan of rows i..n-1 of column k
RECURSIVE PivotScan(_, _, _, _)
PivotScan(augmented, k, i, maxRow) ==
    IF i >= Len(augmented) THEN maxRow
    ELSE PivotScan(augmented, k, i + 1,
                   IF RGt(RAbs(Cell(augmented, i, k)),
                          RAbs(Cell(augmented, maxRow, k)))
                   THEN i ELSE maxRow)

PivotRow(augmented, k) == PivotScan(augmented, k, k + 1, k)

SwapRows(augmented, r1, r2) ==
    [i \in 1..Len(augmented) |->
        IF i = r1 + 1 THEN At(augmented, r2)
        ELSE IF i = r2 + 1 THEN At(augmented, r1)
        ELSE augmented[i]]

\* Math.abs(augmented[k][k]) < 1e-14
IsSingularPivot(pivot) == RLt(RAbs(pivot), RInt(PivotThreshold))

\* an elimination that updates the matrix columns and leaves the
\* right-hand-side column as it was
EliminateMatrixColumnsOnly(augmented, k) ==
    LET n == Len(augmented)
    IN  [i \in 1..n |->
           IF i - 1 <= k THEN augmented[i]
           ELSE LET factor == RDiv(Cell(augmented, i - 1, k),
                                   Cell(augmented, k, k))
                IN  [j \in 1..(n + 1) |->
                       IF j - 1 < k \/ j = n + 1 THEN augmented[i][j]
                       ELSE RSub(augmented[i][j],
                                 RMul(factor, Cell(augmented, k, j - 1)))]]

\* rows below k lose their column-k entry; columns k..n are updated
EliminateColumn(augmented, k) ==
    LET n == Len(augmented)
    IN  [i \in 1..n |->
           IF i - 1 <= k THEN augmented[i]
           ELSE LET factor == RDiv(Cell(augmented, i - 1, k),
                                   Cell(augmented, k, k))
                IN  [j \in 1..(n + 1) |->
                       IF j - 1 < k THEN augmented[i][j]
                       ELSE RSub(augmented[i][j],
                                 RMul(factor, Cell(augmented, k, j - 1)))]]

\* x[i] -= augmented[i][j] * x[j] for j = i+1..n-1, from j upward
RECURSIVE BackRow(_, _, _, _)
BackRow(augmented, x, i, j) ==
    IF j >= Len(augmented) THEN Cell(augmented, i, Len(augmented))
    ELSE RSub(BackRow(augmented, x, i, j + 1),
              RMul(Cell(augmented, i, j), At(x, j)))

\* the back substitution loop, rows i down to 0; x holds rows above i
RECURSIVE BackSubstitution(_, _, _)
BackSubstitution(augmented, x, i) ==
    IF i < 0 THEN x
    ELSE BackSubstitution(
           augmented,
           [x EXCEPT ![i + 1] = RDiv(BackRow(augmented, x, i, i + 1),
                                     Cell(augmented, i, i))],
           i - 1)

NoSolution ==
    [sigma |-> <<>>, gamma |-> RNaN, iterations |-> 0]

LinIdle ==
    [pc |-> "idle", A |-> <<>>, b |-> <<>>, regularization |-> RInt(0),
     augmented |-> <<>>, k |-> 0, x |-> <<>>, residualRows |-> <<>>]

SolveIdle == lin = LinIdle /\ panelSolution = NoSolution

\* the caller's matrix as if every row of the augmented matrix were the
\* caller's row with b[i] appended to it
CallerMatrixSharingRows(A, augmented) ==
    [i \in 1..Len(A) |-> SubSeq(augmented[i], 1, Len(A))]

\* the caller's matrix after a write to the augmented matrix: each row of
\* augmented is a new array [...A[i], b[i]], so the write reaches no row
\* of A
CallerMatrix(A, augmented) == A

\* calculateResidual before the squares are summed: residualRow for every
\* row, axRow - b[i]
CalculateResidualRows(A, x, b) ==
    [i \in 1..Len(A) |->
       RSub(RSum([j \in 1..Len(x) |-> RMul(A[i][j], x[j])], Len(x)), b[i])]

\* solveLinearSystem, lines 149-159: the augmented copy and the diagonal
SolveLinearSystemStart ==
    /\ lin.pc = "assembled"
    /\ LET augmented == Augment(lin.A, lin.b, lin.regularization)
       IN  lin' = [lin EXCEPT
                     !.pc = "eliminate",
                     !.augmented = augmented,
                     !.A = CallerMatrix(lin.A, augmented),
                     !.k = 0]
    /\ UNCHANGED <<geomVars, panelSolution, streamVars, callVars>>

\* one iteration k of the elimination loop: pivot search, row swap,
\* singularity check (throw), elimination of column k
EliminationStep ==
    /\ lin.pc = "eliminate"
    /\ lin.k < Len(lin.augmented)
    /\ LET k       == lin.k
           maxRow  == PivotRow(lin.augmented, k)
           swapped == IF maxRow # k
                      THEN SwapRows(lin.augmented, k, maxRow)
                      ELSE lin.augmented
       IN  IF IsSingularPivot(Cell(swapped, k, k))
           THEN lin' = [lin EXCEPT !.pc = "thrown", !.augmented = swapped,
                                   !.A = CallerMatrix(lin.A, swapped)]
           ELSE lin' = [lin EXCEPT
                          !.augmented = EliminateColumn(swapped, k),
                          !.A = CallerMatrix(lin.A,
                                             EliminateColumn(swapped, k)),
                          !.k = k + 1,
                          !.pc = IF k + 1 = Len(lin.augmented)
                                 THEN "back" ELSE "eliminate"]
    /\ UNCHANGED <<geomVars, panelSolution, streamVars, callVars>>

\* the back substitution and the return of x
BackSubstitute ==
    /\ lin.pc = "back"
    /\ LET n == Len(lin.augmented)
       IN  lin' = [lin EXCEPT
                     !.pc = "solved",
                     !.x = BackSubstitution(lin.augmented,
                                            [i \in 1..n |-> RInt(0)], n - 1)]
    /\ UNCHANGED <<geomVars, panelSolution, streamVars, callVars>>

\* solvePanelMethod after the solve: sigma = x[0..n-1], gamma = x[n],
\* iterations = 1.  The surface velocities, Cp, the lift coefficients and
\* the residual are computed from these and raise nothing; the residual
\* is the root of the sum of the squares of residualRows, taken from
\* extendedA and rhs as the solve left them.
ReturnPanelSolution ==
    /\ lin.pc = "solved"
    /\ LET n == Len(lin.x) - 1
       IN  panelSolution' =
             [sigma |-> SubSeq(lin.x, 1, n),
              gamma |-> At(lin.x, n),
              iterations |-> 1]
    /\ lin' = [lin EXCEPT
                 !.pc = "returned",
                 !.residualRows = CalculateResidualRows(lin.A, lin.x, lin.b)]
    /\ UNCHANGED <<geomVars, streamVars, callVars>>

SolvePanelMethod ==
    \/ SolveLinearSystemStart
    \/ EliminationStep
    \/ BackSubstitute
    \/ ReturnPanelSolution

(* Inputs: the assembled (n+1) x (n+1) system of n panels.                 *)

MaxSolvePanels == 2

EntryChoices == {RInt(-1), Rat(1, 2), RInt(2)}

RegularizationChoices == {RInt(1), RInt(100)}

RhsChoice(dim) == [i \in 1..dim |-> RInt(IF i = 2 THEN -1 ELSE i)]

\* the matrices whose diagonals wrap around, A[i][j] = e[(j - i) mod dim]
CirculantMatrices(dim) ==
    {[i \in 1..dim |-> [j \in 1..dim |-> e[((j - i + dim) % dim) + 1]]] :
        e \in [1..dim -> EntryChoices]}

\* every matrix over EntryChoices up to three unknowns, the circulant ones
\* beyond
FiniteSystems ==
    UNION {[A : IF n + 1 <= 3
                THEN [1..(n + 1) -> [1..(n + 1) -> EntryChoices]]
                ELSE CirculantMatrices(n + 1),
            b : {RhsChoice(n + 1)}] : n \in 1..MaxSolvePanels}

\* both regularizations up to three unknowns, the smaller one beyond (the
\* exact fractions of a larger system outgrow the integers otherwise)
RegularizationsFor(sys) ==
    IF Len(sys.A) <= 3 THEN RegularizationChoices ELSE {RInt(1)}

\* the system assembled from a geometry whose loop holds a NaN point
\* (naca4 with m # 0 and p = 0 divides 0 by 0 at the leading edge): the
\* chord estimate of panelize is NaN, so every control point and every
\* influence coefficient is NaN; the right-hand side is NaN in the rows
\* that read the first or the last panel
NaNSystem(n) ==
    [A |-> [i \in 1..(n + 1) |-> [j \in 1..(n + 1) |-> RNaN]],
     b |-> [i \in 1..(n + 1) |->
              IF i = 1 \/ i >= n THEN RNaN ELSE RInt(1)]]

NaNSystems == {NaNSystem(n) : n \in 1..MaxSolvePanels}


---------------------------------------------------------------------------
(* validateSolution                                                        *)

\* Numbers of a PanelSolution are [v, nan]: clGamma, clPressure and cp in
\* units of 1 / Scale, residual in units of 1e-7.  A comparison with a NaN
\* is false.

\* 1e-6, in units of 1e-7
ResidualThreshold == 10

\* Math.max(...values) over finite values 1..k
RECURSIVE MaxOf(_, _)
MaxOf(values, k) ==
    IF k = 1 THEN values[1].v ELSE Max(MaxOf(values, k - 1), values[k].v)

\* Math.min(...values) over finite values 1..k
RECURSIVE MinOf(_, _)
MinOf(values, k) ==
    IF k = 1 THEN values[1].v ELSE Min(MinOf(values, k - 1), values[k].v)

\* line 265: solution.residual > 1e-6
HighResidual(solution) ==
    ~solution.residual.nan /\ solution.residual.v > ResidualThreshold

\* line 272: 2 * Math.PI * alphaRad
ThinAirfoilCL(alphaRad) == Mul(2 * PiFx, alphaRad)

\* line 275, first operand: Math.abs(alphaRad) > 0.01
AngleNotNegligible(alphaRad) == Abs(alphaRad) > Scale \div 100

\* lines 271-275: Math.abs(alphaRad) > 0.01 &&
\* clDiff > Math.abs(thinAirfoilCL) * 0.5
DeviatesFromThinAirfoil(solution, flow) ==
    LET alphaRad == flow.angleOfAttack
        thinAirfoilCL == ThinAirfoilCL(alphaRad)
    IN  /\ ~solution.clGamma.nan
        /\ AngleNotNegligible(alphaRad)
        /\ 2 * Abs(solution.clGamma.v - thinAirfoilCL) > Abs(thinAirfoilCL)

\* lines 280-281: Math.abs(clGamma - clPressure) > 0.1
ClMethodsDisagree(solution) ==
    /\ ~solution.clGamma.nan
    /\ ~solution.clPressure.nan
    /\ Abs(solution.clGamma.v - solution.clPressure.v) > Scale \div 10

\* lines 286-288: maxCp > 2 || minCp < -10; Math.max of no values is
\* -Infinity and Math.min is Infinity, and a NaN value makes both NaN
ExtremeCp(solution) ==
    LET cp == solution.cp
        n  == Len(cp)
    IN  /\ n > 0
        /\ \A i \in 1..n : ~cp[i].nan
        /\ MaxOf(cp, n) > 2 * Scale \/ MinOf(cp, n) < -(10 * Scale)

\* warnings.push(...) when the test holds; a warning is named by its kind
PushIf(test, warning) == IF test THEN <<warning>> ELSE <<>>

\* a branch that sets isValid = false whatever it found
SetsInvalidAlways(warning) == TRUE

\* whether the branch that pushes this warning also sets isValid = false:
\* line 267, in the residual branch only
SetsInvalid(warning) == warning = "High residual"

\* validateSolution, lines 261-292: what it returns; isValid starts true
ValidateSolution(solution, geometry, flow) ==
    LET warnings ==
          PushIf(HighResidual(solution), "High residual")
          \o PushIf(DeviatesFromThinAirfoil(solution, flow),
                    "CL deviates significantly from thin-airfoil theory")
          \o PushIf(ClMethodsDisagree(solution), "CL methods disagree")
          \o PushIf(ExtremeCp(solution), "Extreme Cp values")
    IN  [isValid  |-> \A k \in 1..Len(warnings) : ~SetsInvalid(warnings[k]),
         warnings |-> warnings]

ValidationIdle ==
    [pc |-> "idle", solution |-> <<>>, flow |-> <<>>, isValid |-> TRUE,
     warnings |-> <<>>]

CallIdle == [pc |-> "idle"]

TabIdle == [pc |-> "idle"]

StoreIdle == [pc |-> "idle"]

CallsIdle ==
    /\ validation = ValidationIdle
    /\ call = CallIdle
    /\ tab = TabIdle
    /\ store = StoreIdle

---------------------------------------------------------------------------
(* Even-odd ray casting, isInsideAirfoil                                   *)

\* the loop body's condition for edge (pj, pi): the edge straddles the
\* horizontal line through the point and the point lies left of it.  The
\* quotient is compared exactly; a NaN operand makes a comparison false.
EdgeToggles(point, pi, pj) ==
    IF point.nan \/ pi.nan \/ pj.nan THEN FALSE
    ELSE /\ (pi.y > point.y) # (pj.y > point.y)
         /\ LET num == (pj.x - pi.x) * (point.y - pi.y)
                den == pj.y - pi.y
            IN  IF den > 0 THEN (point.x - pi.x) * den < num
                ELSE (point.x - pi.x) * den > num

\* the left operand of the loop body's condition:
\* (pi.y > point.y) !== (pj.y > point.y); a comparison with NaN is false
Straddles(point, pi, pj) ==
    (~pi.nan /\ ~point.nan /\ pi.y > point.y)
        # (~pj.nan /\ ~point.nan /\ pj.y > point.y)

\* the divisors of a loop that evaluates the quotient for every edge
DivisorsOfEveryEdge(point, airfoilPoints) ==
    LET n == Len(airfoilPoints)
    IN  {At(airfoilPoints, (i + n - 1) % n).y - At(airfoilPoints, i).y :
           i \in 0..(n - 1)}

\* the divisors pj.y - pi.y of the quotients one call evaluates: && takes
\* its right operand only when the left one holds
EvaluatedDivisors(point, airfoilPoints) ==
    LET n == Len(airfoilPoints)
        evaluated == {i \in 0..(n - 1) :
                        Straddles(point, At(airfoilPoints, i),
                                  At(airfoilPoints, (i + n - 1) % n))}
    IN  {At(airfoilPoints, (i + n - 1) % n).y - At(airfoilPoints, i).y :
           i \in evaluated}

\* a loop that pairs each point with its predecessor only, leaving out the
\* closing edge from the last point to the first
IsInsideOpenPolyline(point, airfoilPoints) ==
    LET n == Len(airfoilPoints)
        toggles == {i \in 1..(n - 1) :
                      EdgeToggles(point, At(airfoilPoints, i),
                                  At(airfoilPoints, i - 1))}
    IN  Cardinality(toggles) % 2 = 1

\* isInsideAirfoil: the loop for (i = 0, j = n - 1; i < n; j = i++)
IsInsideAirfoil(point, airfoilPoints) ==
    LET n == Len(airfoilPoints)
        toggles == {i \in 0..(n - 1) :
                      EdgeToggles(point, At(airfoilPoints, i),
                                  At(airfoilPoints, (i + n - 1) % n))}
    IN  Cardinality(toggles) % 2 = 1

---------------------------------------------------------------------------
(* Velocity field: influence.ts kernels, totalVelocity, fieldVelocity      *)

Vector(vx, vy) == [x |-> vx, y |-> vy, nan |-> FALSE]

NaNVector == [x |-> 0, y |-> 0, nan |-> TRUE]

TwoPiFx == 2 * PiFx

FourPiFx == 4 * PiFx

Ln2Fx == (693 * Scale) \div 1000

\* Math.log(a / b) for a > 0, b > 0 (atanh series after halving the ratio
\* into [1/2, 2]; large operands are scaled down together so the quotient
\* stays in range)
RECURSIVE LnRatio(_, _)
LnRatio(a, b) ==
    IF a > 2 * b THEN LnRatio(a, 2 * b) + Ln2Fx
    ELSE IF 2 * a < b THEN LnRatio(2 * a, b) - Ln2Fx
    ELSE LET big == a + b > 2 * Scale * Scale
             a1  == IF big THEN DivR(a, Scale) ELSE a
             b1  == IF big THEN DivR(b, Scale) ELSE b
             z   == DivR((a1 - b1) * Scale, a1 + b1)
             z2  == Mul(z, z)
             z3  == Mul(z, z2)
         IN  2 * (z + DivR(z3, 3) + DivR(Mul(z3, z2), 5))

\* globalToLocal: the point in the panel's frame (X along, Y across)
GlobalToLocal(globalPoint, panel) ==
    LET dx   == globalPoint.x - panel.x1
        dy   == globalPoint.y - panel.y1
        cosB == panel.tangent.x
        sinB == panel.tangent.y
    IN  [x |-> DivR(dx * cosB + dy * sinB, Scale),
         y |-> DivR(dy * cosB - dx * sinB, Scale)]

\* localToGlobal
LocalToGlobal(localVector, panel) ==
    LET cosB == panel.tangent.x
        sinB == panel.tangent.y
    IN  Vector(DivR(localVector.x * cosB - localVector.y * sinB, Scale),
               DivR(localVector.x * sinB + localVector.y * cosB, Scale))

\* a test of the open span alone, without the end points
OnPanelInterior(X, Y, L) == Y = 0 /\ X > 0 /\ X < L

\* the early returns of both kernels: the point lies on the panel, or on
\* one of its end points.  The thresholds 1e-10 and 1e-20 are below the
\* resolution of the grid, so "below the threshold" is "zero".
OnPanelSingularity(X, Y, L) ==
    \/ Y = 0 /\ X >= 0 /\ X <= L
    \/ X * X + Y * Y = 0
    \/ (X - L) * (X - L) + Y * Y = 0

\* Math.atan2(s2 * Y, (X - s2)^2 + Y^2) - Math.atan2(s1 * Y, (X - s1)^2 + Y^2)
\* with s1 = 0 and s2 = L; the second term is atan2(0, R1_sq) = 0
PanelAngleTerm(X, Y, L) ==
    Atan2Fx(Mul(L, Y), DivR((X - L) * (X - L) + Y * Y, Scale))

\* Math.log(R2_sq / R1_sq)
PanelLogTerm(X, Y, L) ==
    LnRatio((X - L) * (X - L) + Y * Y, X * X + Y * Y)

\* R1_sq and R2_sq are both positive: R2_sq / R1_sq and its logarithm are
\* finite (a zero R1_sq makes the quotient Infinity or NaN, a zero R2_sq
\* makes the logarithm -Infinity)
LogIsFinite(X, Y, L) ==
    X * X + Y * Y > 0 /\ (X - L) * (X - L) + Y * Y > 0

\* sourceInfluence; strength is [v, nan]
SourceInfluence(fieldPoint, panel, sourceStrength) ==
    IF fieldPoint.nan \/ panel.nan THEN NaNVector
    ELSE LET local == GlobalToLocal(fieldPoint, panel)
             X == local.x
             Y == local.y
             L == panel.length
         IN  IF OnPanelSingularity(X, Y, L) THEN Vector(0, 0)
             ELSE IF sourceStrength.nan \/ ~LogIsFinite(X, Y, L)
             THEN NaNVector
             ELSE LocalToGlobal(
                    [x |-> Mul(Quot(sourceStrength.v, TwoPiFx),
                               PanelAngleTerm(X, Y, L)),
                     y |-> Mul(Quot(sourceStrength.v, FourPiFx),
                               PanelLogTerm(X, Y, L))],
                    panel)

\* vortexInfluence
VortexInfluence(fieldPoint, panel, vortexStrength) ==
    IF fieldPoint.nan \/ panel.nan THEN NaNVector
    ELSE LET local == GlobalToLocal(fieldPoint, panel)
             X == local.x
             Y == local.y
             L == panel.length
         IN  IF OnPanelSingularity(X, Y, L) THEN Vector(0, 0)
             ELSE IF vortexStrength.nan \/ ~LogIsFinite(X, Y, L)
             THEN NaNVector
             ELSE LocalToGlobal(
                    [x |-> -Mul(Quot(vortexStrength.v, FourPiFx),
                                PanelLogTerm(X, Y, L)),
                     y |-> Mul(Quot(vortexStrength.v, TwoPiFx),
                               PanelAngleTerm(X, Y, L))],
                    panel)

VecAdd(a, b) ==
    IF a.nan \/ b.nan THEN NaNVector ELSE Vector(a.x + b.x, a.y + b.y)

\* the two loops of totalVelocity over panels 0..k-1 (each term is bound
\* to its value before it is added)
RECURSIVE PanelSum(_, _, _, _, _)
PanelSum(fieldPoint, panels, sourceStrengths, circulationPerPanel, k) ==
    IF k = 0 THEN Vector(0, 0)
    ELSE CHOOSE total \in
           {VecAdd(sum, VecAdd(sourceVel, vortexVel)) :
              sum \in {PanelSum(fieldPoint, panels, sourceStrengths,
                                circulationPerPanel, k - 1)},
              sourceVel \in {SourceInfluence(fieldPoint, panels[k],
                                             sourceStrengths[k])},
              vortexVel \in {VortexInfluence(fieldPoint, panels[k],
                                             circulationPerPanel)}} : TRUE

\* totalVelocity
TotalVelocity(fieldPoint, panels, sourceStrengths, totalCirculation, freestream) ==
    LET n == Len(panels)
        circulationPerPanel ==
            IF n = 0 \/ totalCirculation.nan THEN [v |-> 0, nan |-> TRUE]
            ELSE [v |-> DivR(totalCirculation.v, n), nan |-> FALSE]
    IN  VecAdd(freestream,
               PanelSum(fieldPoint, panels, sourceStrengths,
                        circulationPerPanel, n))

\* fieldVelocity; flow.angleOfAttack counts sixths of PI
FieldVelocity(point, geometry, solution, flow) ==
    LET uInf == Mul(flow.velocity, CosPi(flow.angleOfAttack, 6))
        vInf == Mul(flow.velocity, CosPi(3 - flow.angleOfAttack, 6))
    IN  TotalVelocity(point, geometry.panels, solution.sigma, solution.gamma,
                      Vector(uInf, vInf))

---------------------------------------------------------------------------
(* traceStreamline and generateStreamlineField                             *)

\* a loop condition that admits one more pass, step <= maxSteps
StepAllowedInclusive(step, maxSteps) == step <= maxSteps

\* the loop condition of traceStreamline, step < params.maxSteps
StepAllowed(step, maxSteps) == step < maxSteps

\* the bounds test on a midpoint or an end point, with the box edges
\* counted as outside
OutsideOrOnBounds(point, bounds) ==
    /\ ~point.nan
    /\ ~bounds.nan
    /\ \/ point.x <= bounds.xMin \/ point.x >= bounds.xMax
       \/ point.y <= bounds.yMin \/ point.y >= bounds.yMax

\* point.x < xMin || point.x > xMax || point.y < yMin || point.y > yMax
OutsideBounds(point, bounds) ==
    /\ ~point.nan
    /\ ~bounds.nan
    /\ \/ point.x < bounds.xMin \/ point.x > bounds.xMax
       \/ point.y < bounds.yMin \/ point.y > bounds.yMax

\* Math.sqrt(vel.x * vel.x + vel.y * vel.y) of a velocity that is no NaN
Speed(vel) == Isqrt(vel.x * vel.x + vel.y * vel.y)

\* speed < params.minVelocity
BelowMinVelocity(vel, minVelocity) ==
    ~vel.nan /\ Speed(vel) < minVelocity

\* from + h * vel / speed; 0/0 is NaN
Advance(from, h, vel) ==
    IF from.nan \/ vel.nan \/ Speed(vel) = 0 THEN NaNPoint
    ELSE Point(from.x + DivR(h * vel.x, Speed(vel)),
               from.y + DivR(h * vel.y, Speed(vel)))

NoBounds == [xMin |-> 0, xMax |-> 0, yMin |-> 0, yMax |-> 0, nan |-> FALSE]

NoScene == [geometry |-> NoGeometry, solution |-> <<>>, flow |-> <<>>]

TraceIdle ==
    [pc |-> "idle", startPoint |-> Point(0, 0),
     params |-> [stepSize |-> 0, maxSteps |-> 0, bounds |-> NoBounds,
                 minVelocity |-> 0],
     points |-> <<>>, currentPoint |-> Point(0, 0), step |-> 0,
     iterations |-> 0, vel1 |-> Vector(0, 0), midPoint |-> Point(0, 0),
     vel2 |-> Vector(0, 0),
     complete |-> FALSE, stop |-> "none", tried |-> Point(0, 0)]

FieldIdle ==
    [pc |-> "idle",
     params |-> [nStreamlines |-> 0, stepSize |-> 0, maxSteps |-> 0,
                 seedDistance |-> 0, yRange |-> 0],
     bounds |-> NoBounds, i |-> 0, traced |-> 0, streamlines |-> <<>>]

StreamIdle == scene = NoScene /\ field = FieldIdle /\ trace = TraceIdle

\* a call traceStreamline(startPoint, ..., params)
TraceCall(startPoint, params) ==
    [TraceIdle EXCEPT !.pc = "entered", !.startPoint = startPoint,
                      !.params = params]

---------------------------------------------------------------------------
(* Inputs of the geometry calls                                            *)

MaxDigitsLen == 5

Alphabet == {"0", "2", "x"}

DigitStrings == UNION {[1..k -> Alphabet] : k \in 0..MaxDigitsLen}

NPointsChoices == {1, 4, 5, 8, 20, 40}

ChordChoices == {Scale, 2 * Scale}

NPanelsChoices == {2, 4, 8, 20, 30}

EpsilonChoices == {Scale \div 100, Scale \div 50}

NacaInputs ==
    [digits : DigitStrings, nPoints : NPointsChoices, chord : ChordChoices]

PanelInputs == [nPanels : NPanelsChoices, epsilon : EpsilonChoices]

NoKutta ==
    [upperPanel |-> -1, lowerPanel |-> -1,
     upperControlPoint |-> NaNPoint, lowerControlPoint |-> NaNPoint,
     upperTangent |-> [x |-> 0, y |-> 0], lowerTangent |-> [x |-> 0, y |-> 0]]

GeoStart == [pc |-> "start", points |-> <<>>, geometry |-> NoGeometry]

GeomInit ==
    /\ nacaParams \in NacaInputs
    /\ panelParams \in PanelInputs
    /\ geo = GeoStart
    /\ kutta = NoKutta
    /\ SolveIdle
    /\ StreamIdle
    /\ CallsIdle

\* createAirfoilGeometry, first statement: naca4 validates the code and
\* throws, or computes the point loop
Naca4 ==
    /\ geo.pc = "start"
    /\ IF ~IsFourDigits(nacaParams.digits)
       THEN geo' = [geo EXCEPT !.pc = "thrown"]
       ELSE geo' = [geo EXCEPT
                      !.pc = "panelize",
                      !.points = Naca4Points(nacaParams.digits,
                                             nacaParams.nPoints,
                                             nacaParams.chord)]
    /\ UNCHANGED <<nacaParams, panelParams, kutta, solveVars, streamVars, callVars>>

\* createAirfoilGeometry, the rest: panelize and the returned object
PanelizeAndReturn ==
    /\ geo.pc = "panelize"
    /\ geo' = [geo EXCEPT
                 !.pc = "returned",
                 !.geometry = AirfoilGeometry(geo.points,
                                              Panelize(geo.points, panelParams),
                                              nacaParams.chord)]
    /\ UNCHANGED <<nacaParams, panelParams, kutta, solveVars, streamVars, callVars>>

CreateAirfoilGeometry == Naca4 \/ PanelizeAndReturn

\* solvePanelMethod, the Kutta row: buildKuttaCoefficients and rhs[n] read
\* the control points and tangents of panels[teUpperIndex] and
\* panels[teLowerIndex]
KuttaPanels(geometry) ==
    [upperPanel |-> geometry.teUpperIndex,
     lowerPanel |-> geometry.teLowerIndex,
     upperControlPoint |-> At(geometry.panels, geometry.teUpperIndex).controlPoint,
     lowerControlPoint |-> At(geometry.panels, geometry.teLowerIndex).controlPoint,
     upperTangent |-> At(geometry.panels, geometry.teUpperIndex).tangent,
     lowerTangent |-> At(geometry.panels, geometry.teLowerIndex).tangent]

AssembleKuttaRow ==
    /\ geo.pc = "returned"
    /\ Len(geo.geometry.panels) > 0
    /\ kutta' = KuttaPanels(geo.geometry)
    /\ geo' = [geo EXCEPT !.pc = "kutta"]
    /\ UNCHANGED <<nacaParams, panelParams, solveVars, streamVars, callVars>>

GeomNext == CreateAirfoilGeometry \/ AssembleKuttaRow

GeomSpec == GeomInit /\ [][GeomNext]_vars

\* createAirfoilGeometry is not running
GeomIdle ==
    /\ nacaParams = [digits |-> <<>>, nPoints |-> 0, chord |-> 0]
    /\ panelParams = [nPanels |-> 0, epsilon |-> 0]
    /\ geo = GeoStart
    /\ kutta = NoKutta

SolveInit ==
    /\ GeomIdle
    /\ StreamIdle
    /\ CallsIdle
    /\ \E sys \in FiniteSystems \cup NaNSystems :
         \E reg \in RegularizationsFor(sys) :
         lin = [LinIdle EXCEPT !.pc = "assembled", !.A = sys.A, !.b = sys.b,
                               !.regularization = reg]
    /\ panelSolution = NoSolution

SolveNext == SolvePanelMethod

SolveSpec == SolveInit /\ [][SolveNext]_vars

---------------------------------------------------------------------------
(* The streamline calls as state machines                                  *)

\* traceStreamline, lines 85-92: the first point and the start-inside test
TraceEnter ==
    /\ trace.pc = "entered"
    /\ LET inside == IsInsideAirfoil(trace.startPoint, scene.geometry.points)
       IN  trace' = [trace EXCEPT
                       !.points = <<trace.startPoint>>,
                       !.currentPoint = trace.startPoint,
                       !.tried = trace.startPoint,
                       !.step = 0,
                       !.iterations = 0,
                       !.complete = FALSE,
                       !.stop = IF inside THEN "startInsideAirfoil"
                                ELSE "none",
                       !.pc = IF inside THEN "done" ELSE "loop"]
    /\ UNCHANGED <<geomVars, solveVars, scene, field, callVars>>

\* an exit that reports every stop as complete
BreakAsComplete(why, done, at) ==
    [trace EXCEPT !.pc = "done", !.stop = why, !.complete = TRUE,
                  !.tried = at]

\* the loop has ended: break, or the loop test failed
Break(why, done, at) ==
    [trace EXCEPT !.pc = "done", !.stop = why, !.complete = done,
                  !.tried = at]

\* lines 94-97: the loop test, then the velocity at the current point
TraceVelocityAtCurrent ==
    /\ trace.pc = "loop"
    /\ IF ~StepAllowed(trace.step, trace.params.maxSteps)
       THEN trace' = Break("maxSteps", trace.complete, trace.currentPoint)
       ELSE trace' = [trace EXCEPT
                        !.pc = "halfStep",
                        !.iterations = @ + 1,
                        !.vel1 = FieldVelocity(trace.currentPoint,
                                               scene.geometry,
                                               scene.solution, scene.flow)]
    /\ UNCHANGED <<geomVars, solveVars, scene, field, callVars>>

\* lines 99-121: the speed test, the half step, the tests on the midpoint
TraceHalfStep ==
    /\ trace.pc = "halfStep"
    /\ LET halfStep == DivR(trace.params.stepSize, 2)
           midPoint == Advance(trace.currentPoint, halfStep, trace.vel1)
       IN  IF BelowMinVelocity(trace.vel1, trace.params.minVelocity)
           THEN trace' = Break("lowSpeedAtCurrentPoint", trace.complete,
                               trace.currentPoint)
           ELSE IF OutsideBounds(midPoint, trace.params.bounds)
           THEN trace' = Break("midPointOutOfBounds", TRUE, midPoint)
           ELSE IF IsInsideAirfoil(midPoint, scene.geometry.points)
           THEN trace' = Break("midPointInsideAirfoil", trace.complete,
                               midPoint)
           ELSE trace' = [trace EXCEPT !.pc = "midVelocity",
                                       !.midPoint = midPoint]
    /\ UNCHANGED <<geomVars, solveVars, scene, field, callVars>>

\* lines 123-125: the velocity at the midpoint
TraceVelocityAtMidPoint ==
    /\ trace.pc = "midVelocity"
    /\ trace' = [trace EXCEPT
                   !.pc = "fullStep",
                   !.vel2 = FieldVelocity(trace.midPoint, scene.geometry,
                                          scene.solution, scene.flow)]
    /\ UNCHANGED <<geomVars, solveVars, scene, field, callVars>>

\* lines 127-151: the speed test, the full step, the tests on the end
\* point, the push and step++
TraceFullStep ==
    /\ trace.pc = "fullStep"
    /\ LET nextPoint == Advance(trace.currentPoint, trace.params.stepSize,
                                trace.vel2)
       IN  IF BelowMinVelocity(trace.vel2, trace.params.minVelocity)
           THEN trace' = Break("lowSpeedAtMidPoint", trace.complete,
                               trace.midPoint)
           ELSE IF OutsideBounds(nextPoint, trace.params.bounds)
           THEN trace' = Break("nextPointOutOfBounds", TRUE, nextPoint)
           ELSE IF IsInsideAirfoil(nextPoint, scene.geometry.points)
           THEN trace' = Break("nextPointInsideAirfoil", trace.complete,
                               nextPoint)
           ELSE trace' = [trace EXCEPT
                            !.pc = "loop",
                            !.points = Append(@, nextPoint),
                            !.currentPoint = nextPoint,
                            !.tried = nextPoint,
                            !.step = @ + 1]
    /\ UNCHANGED <<geomVars, solveVars, scene, field, callVars>>

TraceStreamline ==
    \/ TraceEnter
    \/ TraceVelocityAtCurrent
    \/ TraceHalfStep
    \/ TraceVelocityAtMidPoint
    \/ TraceFullStep

\* Math.min / Math.max over the loop's coordinates, widened; NaN when a
\* loop point is NaN
FieldBounds(geometry, params) ==
    LET pts == geometry.points
        n   == Len(pts)
    IN  IF AnyNaN(pts) THEN [NoBounds EXCEPT !.nan = TRUE]
        ELSE [xMin |-> MinX(pts, n) - params.seedDistance,
              xMax |-> MaxX(pts, n) + params.seedDistance,
              yMin |-> MinY(pts, n) - params.yRange,
              yMax |-> MaxY(pts, n) + params.yRange,
              nan  |-> FALSE]

\* seed i: x = xMin + 0.1 * seedDistance, y = yMin + t * (yMax - yMin) with
\* t = i / (nStreamlines - 1); for a single streamline t = 0/0
SeedPoint(i, params, bounds) ==
    IF bounds.nan \/ params.nStreamlines = 1 THEN NaNPoint
    ELSE LET seedX == bounds.xMin + Mul(params.seedDistance, Scale \div 10)
             t     == DivR(i * Scale, params.nStreamlines - 1)
         IN  Point(seedX, bounds.yMin + Mul(t, bounds.yMax - bounds.yMin))

\* generateStreamlineField, lines 176-188
FieldEnter ==
    /\ field.pc = "entered"
    /\ field' = [field EXCEPT
                   !.pc = "loop",
                   !.bounds = FieldBounds(scene.geometry, field.params),
                   !.i = 0,
                   !.streamlines = <<>>]
    /\ UNCHANGED <<geomVars, solveVars, scene, trace, callVars>>

\* lines 190-212: the seed of iteration i, skipped inside the airfoil,
\* traced otherwise
FieldSeed ==
    /\ field.pc = "loop"
    /\ field.i < field.params.nStreamlines
    /\ LET startPoint == SeedPoint(field.i, field.params, field.bounds)
       IN  IF IsInsideAirfoil(startPoint, scene.geometry.points)
           THEN /\ field' = [field EXCEPT !.i = @ + 1]
                /\ UNCHANGED trace
           ELSE /\ field' = [field EXCEPT !.pc = "tracing",
                                          !.traced = @ + 1]
                /\ trace' = TraceCall(
                     startPoint,
                     [stepSize    |-> field.params.stepSize,
                      maxSteps    |-> field.params.maxSteps,
                      bounds      |-> field.bounds,
                      minVelocity |-> Mul(scene.flow.velocity,
                                          Scale \div 100)])
    /\ UNCHANGED <<geomVars, solveVars, scene, callVars>>

\* a test that also keeps a streamline of five points
FivePointsSuffice(points) == Len(points) > 4

\* line 215: streamline.points.length > 5
SufficientPoints(points) == Len(points) > 5

\* lines 214-218: the traced streamline is kept when it has over 5 points
FieldCollect ==
    /\ field.pc = "tracing"
    /\ trace.pc = "done"
    /\ field' = [field EXCEPT
                   !.pc = "loop",
                   !.i = @ + 1,
                   !.streamlines =
                       IF SufficientPoints(trace.points)
                       THEN Append(@, [points |-> trace.points,
                                       complete |-> trace.complete])
                       ELSE @]
    /\ trace' = TraceIdle
    /\ UNCHANGED <<geomVars, solveVars, scene, callVars>>

\* line 220
FieldReturn ==
    /\ field.pc = "loop"
    /\ ~(field.i < field.params.nStreamlines)
    /\ field' = [field EXCEPT !.pc = "returned"]
    /\ UNCHANGED <<geomVars, solveVars, scene, trace, callVars>>

GenerateStreamlineField ==
    \/ FieldEnter
    \/ FieldSeed
    \/ FieldCollect
    \/ FieldReturn

(* Inputs of the streamline calls                                          *)

MaxTraceSteps == 6

MaxStreamlines == 3

\* a thick symmetric section, and a code with m # 0, p = 0 (NaN points)
StreamDigits == {<<"0", "0", "4", "0">>, <<"2", "0", "4", "0">>}

StreamGeometry(digits) ==
    LET points == Naca4Points(digits, 6, Scale)
    IN  AirfoilGeometry(
          points,
          Panelize(points, [nPanels |-> 6, epsilon |-> Scale \div 100]),
          Scale)

Finite(v) == [v |-> v, nan |-> FALSE]

\* solutions of n panels: no singularities, uniform sources, circulation
\* alone, and the NaN solution the solver returns for a NaN system
StreamSolutions(n) ==
    {[sigma |-> [k \in 1..n |-> Finite(0)], gamma |-> Finite(0)],
     [sigma |-> [k \in 1..n |-> Finite(Scale \div 2)], gamma |-> Finite(0)],
     [sigma |-> [k \in 1..n |-> Finite(0)], gamma |-> Finite(Scale)],
     [sigma |-> [k \in 1..n |-> [v |-> 0, nan |-> TRUE]],
      gamma |-> [v |-> 0, nan |-> TRUE]]}

StreamFlows == {[velocity |-> Scale, angleOfAttack |-> a] : a \in {0, 1}}

Scenes ==
    UNION {[geometry : {StreamGeometry(d)},
            solution : StreamSolutions(Len(StreamGeometry(d).panels)),
            flow     : StreamFlows] : d \in StreamDigits}

StepSizeChoice == Scale \div 4

MaxStepsChoices == {2, MaxTraceSteps}

DirectBounds ==
    [xMin |-> -(Scale \div 2), xMax |-> (3 * Scale) \div 2,
     yMin |-> -((7 * Scale) \div 10), yMax |-> (7 * Scale) \div 10,
     nan |-> FALSE]

StartPoints ==
    {Point(-(Scale \div 4), 0),
     Point(Scale \div 2, 0),
     Point(Scale, Scale \div 2),
     Point(Scale, -(Scale \div 2)),
     Point(0, (7 * Scale) \div 10)}

TraceCalls ==
    {TraceCall(start, [stepSize |-> StepSizeChoice, maxSteps |-> ms,
                       bounds |-> DirectBounds, minVelocity |-> mv]) :
        start \in StartPoints, ms \in MaxStepsChoices,
        mv \in {Scale \div 100, (9 * Scale) \div 10}}

FieldCalls ==
    {[FieldIdle EXCEPT
        !.pc = "entered",
        !.params = [nStreamlines |-> n, stepSize |-> StepSizeChoice,
                    maxSteps |-> ms, seedDistance |-> sd,
                    yRange |-> Scale \div 2]] :
        n \in 1..MaxStreamlines, ms \in MaxStepsChoices,
        sd \in {Scale \div 2, -(Scale \div 2)}}

StreamInit ==
    /\ GeomIdle
    /\ SolveIdle
    /\ CallsIdle
    /\ scene \in Scenes
    /\ \/ field = FieldIdle /\ trace \in TraceCalls
       \/ field \in FieldCalls /\ trace = TraceIdle

StreamNext == TraceStreamline \/ GenerateStreamlineField

StreamSpec == StreamInit /\ [][StreamNext]_vars

---------------------------------------------------------------------------
(* The influence kernels as calls                                          *)

\* a panel from (x1, y1) to (x2, y2) as panelize builds it
PanelBetween(x1, y1, x2, y2) ==
    PanelAt(<<Point(x1, y1), Point(x2, y2)>>, 0, 0)

\* panels along the axis, along a 3-4-5 diagonal, vertical, reversed, and
\* one of a single grid step
KernelPanels ==
    {PanelBetween(0, 0, Scale, 0),
     PanelBetween(0, 0, 600, 800),
     PanelBetween(500, -200, 500, 300),
     PanelBetween(Scale, 0, 0, 0),
     PanelBetween(100, 100, 101, 100)}

KernelCoordinates == {-300, -1, 0, 1, 100, 101, 300, 400, 500, 600, 800, Scale}

KernelPoints == {Point(x, y) : x \in KernelCoordinates, y \in KernelCoordinates}

KernelStrengths == {Finite(Scale), Finite(-(Scale \div 2)), Finite(0)}

KernelInit ==
    /\ GeomIdle
    /\ SolveIdle
    /\ StreamIdle
    /\ validation = ValidationIdle
    /\ tab = TabIdle
    /\ store = StoreIdle
    /\ \E fn \in {"sourceInfluence", "vortexInfluence"},
          fieldPoint \in KernelPoints, panel \in KernelPanels,
          strength \in KernelStrengths :
         call = [pc |-> "called", fn |-> fn, fieldPoint |-> fieldPoint,
                 panel |-> panel, strength |-> strength,
                 local |-> [x |-> 0, y |-> 0], formula |-> FALSE,
                 result |-> Vector(0, 0)]

\* what a kernel call leaves behind: the local coordinates (lines 30-32),
\* whether the formulas of lines 60-65 (110-115) were evaluated, and the
\* returned vector
KernelReturn(result) ==
    LET local == GlobalToLocal(call.fieldPoint, call.panel)
    IN  [call EXCEPT
           !.pc = "returned",
           !.local = local,
           !.formula = ~OnPanelSingularity(local.x, local.y,
                                           call.panel.length),
           !.result = result]

SourceInfluenceCall ==
    /\ call.pc = "called"
    /\ call.fn = "sourceInfluence"
    /\ call' = KernelReturn(SourceInfluence(call.fieldPoint, call.panel,
                                            call.strength))
    /\ UNCHANGED <<geomVars, solveVars, streamVars, validation, tab, store>>

VortexInfluenceCall ==
    /\ call.pc = "called"
    /\ call.fn = "vortexInfluence"
    /\ call' = KernelReturn(VortexInfluence(call.fieldPoint, call.panel,
                                            call.strength))
    /\ UNCHANGED <<geomVars, solveVars, streamVars, validation, tab, store>>

KernelNext == SourceInfluenceCall \/ VortexInfluenceCall

KernelSpec == KernelInit /\ [][KernelNext]_vars

---------------------------------------------------------------------------
(* isInsideAirfoil as a call                                               *)

\* the loop started r vertices later
Rotated(loop, r) ==
    [k \in 1..Len(loop) |-> loop[((k - 1 + r) % Len(loop)) + 1]]

\* the loop in the opposite sense
Reversed(loop) == [k \in 1..Len(loop) |-> loop[Len(loop) + 1 - k]]

\* a rectangle, a triangle, a diamond and a pentagon
BaseLoops ==
    {<<Point(0, 0), Point(400, 0), Point(400, 300), Point(0, 300)>>,
     <<Point(0, 0), Point(600, 0), Point(300, 400)>>,
     <<Point(300, 0), Point(600, 200), Point(300, 400), Point(0, 200)>>,
     <<Point(100, 0), Point(500, 0), Point(600, 200), Point(300, 400),
       Point(0, 200)>>}

ConvexLoops ==
    UNION {{Rotated(loop, r), Reversed(Rotated(loop, r))} :
             loop \in BaseLoops, r \in 0..2}

RECURSIVE SumX(_, _)
SumX(points, k) == IF k = 0 THEN 0 ELSE points[k].x + SumX(points, k - 1)

RECURSIVE SumY(_, _)
SumY(points, k) == IF k = 0 THEN 0 ELSE points[k].y + SumY(points, k - 1)

\* the mean of the vertices, the centroid of the vertex set
Centroid(loop) ==
    Point(DivR(SumX(loop, Len(loop)), Len(loop)),
          DivR(SumY(loop, Len(loop)), Len(loop)))

\* no points at all, and a loop closed by repeating its first point
OtherLoops ==
    {<<>>,
     <<Point(0, 0), Point(400, 0), Point(400, 300), Point(0, 300),
       Point(0, 0)>>}

RayCoordinates == {-100, 0, 100, 200, 300, 400, 500, 600, 700}

RayPoints == {Point(x, y) : x \in RayCoordinates, y \in RayCoordinates}

RayInit ==
    /\ GeomIdle
    /\ SolveIdle
    /\ StreamIdle
    /\ validation = ValidationIdle
    /\ tab = TabIdle
    /\ store = StoreIdle
    /\ \E loop \in ConvexLoops \cup OtherLoops :
         \E point \in RayPoints
                      \cup (IF loop = <<>> THEN {} ELSE {Centroid(loop)}) :
           call = [pc |-> "called", fn |-> "isInsideAirfoil",
                   point |-> point, airfoilPoints |-> loop,
                   divisors |-> {}, result |-> FALSE]

IsInsideAirfoilCall ==
    /\ call.pc = "called"
    /\ call.fn = "isInsideAirfoil"
    /\ call' = [call EXCEPT
                  !.pc = "returned",
                  !.divisors = EvaluatedDivisors(call.point,
                                                 call.airfoilPoints),
                  !.result = IsInsideAirfoil(call.point, call.airfoilPoints)]
    /\ UNCHANGED <<geomVars, solveVars, streamVars, validation, tab, store>>

RayNext == IsInsideAirfoilCall

RaySpec == RayInit /\ [][RayNext]_vars

---------------------------------------------------------------------------
(* The PanelTab component and the panel fields of the demo store           *)

\* null, as a record so that it compares with the records below
Null == [null |-> TRUE]

\* In this component model a geometry, a solution and a streamline field
\* stand for the values createAirfoilGeometry, solvePanelMethod and
\* generateStreamlineField return: each is named by the arguments it was
\* computed from.

\* defaultState of the store (types.ts)
DefaultNacaDigits == <<"0", "0", "1", "2">>

DefaultChord == Scale

DefaultVelocity == 10 * Scale

DefaultAngleOfAttack == 5

DefaultNPanels == 120

\* setAngleOfAttack: Math.max(-30, Math.min(30, aoa))
ClampAngleOfAttack(aoa) == Max(-30, Min(30, aoa))

\* setNPanels: Math.max(60, Math.min(240, Math.round(nPanels)))
ClampNPanels(nPanels) == Max(60, Min(240, nPanels))

\* angleOfAttack * Math.PI / 180, degrees to radians
ToRadians(degrees) == DivR(degrees * PiFx, 180)

\* the useMemo of lines 106-126: createAirfoilGeometry of the current
\* airfoil parameters
MemoAirfoilGeometry(t) ==
    [digits  |-> t.nacaDigits,
     nPoints |-> Max(100, t.nPanels * 2),
     chord   |-> t.chord,
     nPanels |-> t.nPanels]

\* flowConditions of lines 138-142 and 197-201, from the flowParams a
\* render holds
FlowConditions(flowParams) ==
    [velocity      |-> flowParams.velocity,
     density       |-> flowParams.density,
     angleOfAttack |-> ToRadians(flowParams.angleOfAttack)]

\* flowParams of the current render
FlowParams(t) ==
    [velocity |-> t.velocity, density |-> t.density,
     angleOfAttack |-> t.angleOfAttack]

\* solvePanelMethod(geometry, flowConditions, ...)
PanelSolutionOf(geometry, flowConditions) ==
    [geometry |-> geometry, flow |-> flowConditions]

\* generateStreamlineField(geometry, solution, flowConditions, ...)
StreamlineFieldOf(geometry, solution, flowConditions) ==
    [geometry |-> geometry, solution |-> solution, flow |-> flowConditions]

\* handleSolve calls that wait for their timer, each with the values its
\* closure captured
MaxPendingSolves == 2

\* the component after mounting, with the store at its defaults
TabMounted ==
    [pc |-> "mounted",
     nacaDigits |-> DefaultNacaDigits, chord |-> DefaultChord,
     nPanels |-> DefaultNPanels, velocity |-> DefaultVelocity,
     density |-> 1225, angleOfAttack |-> DefaultAngleOfAttack,
     showStreamlines |-> FALSE,
     isComputing |-> FALSE, solution |-> Null, geometry |-> Null,
     streamlineField |-> Null, validationResults |-> Null,
     pending |-> <<>>]

TabInit ==
    /\ GeomIdle
    /\ SolveIdle
    /\ StreamIdle
    /\ validation = ValidationIdle
    /\ call = CallIdle
    /\ tab = TabMounted
    /\ store = StoreIdle

TabUnchanged == UNCHANGED <<geomVars, solveVars, streamVars, validation, call, store>>

\* the Angle of Attack slider: setAngleOfAttack
SetAngleOfAttack ==
    /\ tab.pc = "mounted"
    /\ \E aoa \in {5, 10, 45} :
         tab' = [tab EXCEPT !.angleOfAttack = ClampAngleOfAttack(aoa)]
    /\ TabUnchanged

\* the Number of Panels slider: setNPanels
SetNPanels ==
    /\ tab.pc = "mounted"
    /\ \E n \in {60, 120} :
         tab' = [tab EXCEPT !.nPanels = ClampNPanels(n)]
    /\ TabUnchanged

\* handleSolve up to its await (lines 129-136); the button is disabled
\* while isComputing.  The closure keeps airfoilGeometry, flowParams and
\* showStreamlines of the render it was created in.
HandleSolveClick ==
    /\ tab.pc = "mounted"
    /\ ~tab.isComputing
    /\ Len(tab.pending) < MaxPendingSolves
    /\ tab' = [tab EXCEPT
                 !.isComputing = TRUE,
                 !.pending = Append(@,
                     [airfoilGeometry |-> MemoAirfoilGeometry(tab),
                      flowParams      |-> FlowParams(tab),
                      showStreamlines |-> tab.showStreamlines])]
    /\ TabUnchanged

\* handleSolve after the timer (lines 138-184).  solvePanelMethod returns,
\* or solveLinearSystem throws on a small pivot; which of the two is decided
\* by the matrix, which this component model does not compute.
HandleSolveResume ==
    /\ tab.pc = "mounted"
    /\ Len(tab.pending) > 0
    /\ LET closure        == Head(tab.pending)
           flowConditions == FlowConditions(closure.flowParams)
           solved         == PanelSolutionOf(closure.airfoilGeometry,
                                             flowConditions)
       IN  \/ tab' = [tab EXCEPT
                        !.pending = Tail(@),
                        !.solution = solved,
                        !.geometry = closure.airfoilGeometry,
                        !.validationResults = [of |-> solved],
                        !.streamlineField =
                            IF closure.showStreamlines
                            THEN StreamlineFieldOf(closure.airfoilGeometry,
                                                   solved,
                                                   flowConditions)
                            ELSE @,
                        !.isComputing = FALSE]
           \/ tab' = [tab EXCEPT
                        !.pending = Tail(@),
                        !.solution = Null,
                        !.validationResults = Null,
                        !.isComputing = FALSE]
    /\ TabUnchanged

\* handleToggleStreamlines (lines 189-223); the toggle is disabled while
\* there is no solution
HandleToggleStreamlines ==
    /\ tab.pc = "mounted"
    /\ tab.solution # Null
    /\ LET newShowStreamlines == ~tab.showStreamlines
       IN  IF newShowStreamlines /\ tab.solution # Null /\ tab.geometry # Null
           THEN tab' = [tab EXCEPT
                          !.showStreamlines = newShowStreamlines,
                          !.streamlineField =
                              StreamlineFieldOf(
                                  tab.geometry, tab.solution,
                                  FlowConditions(FlowParams(tab))),
                          !.isComputing = FALSE]
           ELSE tab' = [tab EXCEPT
                          !.showStreamlines = newShowStreamlines,
                          !.streamlineField = Null]
    /\ TabUnchanged

\* the Reset Parameters button: resetPanelParams of the store
ResetPanelParams ==
    /\ tab.pc = "mounted"
    /\ tab' = [tab EXCEPT
                 !.nacaDigits = DefaultNacaDigits,
                 !.chord = DefaultChord,
                 !.velocity = DefaultVelocity,
                 !.angleOfAttack = DefaultAngleOfAttack,
                 !.nPanels = DefaultNPanels,
                 !.density = 1225,
                 !.showStreamlines = FALSE]
    /\ TabUnchanged

TabNext ==
    \/ SetAngleOfAttack
    \/ SetNPanels
    \/ HandleSolveClick
    \/ HandleSolveResume
    \/ HandleToggleStreamlines
    \/ ResetPanelParams

TabSpec == TabInit /\ [][TabNext]_vars

---------------------------------------------------------------------------
(* validateSolution as a call                                              *)

NaNNumber == [v |-> 0, nan |-> TRUE]

\* residuals at, around and far from 1e-6, and NaN
ResidualChoices == {Finite(0), Finite(10), Finite(11), Finite(50000), NaNNumber}

ClGammaChoices == {Finite(0), Finite(548), Finite(Scale), NaNNumber}

\* clPressure as clGamma plus a difference at and around 0.1
ClDifferenceChoices == {0, Scale \div 10, (Scale \div 10) + 1, -(Scale \div 2)}

CpChoices ==
    {<<>>,
     <<Finite(Scale), Finite(-(Scale \div 2))>>,
     <<Finite(2 * Scale), Finite(-(10 * Scale))>>,
     <<Finite(2 * Scale + 1), Finite(0)>>,
     <<Finite(0), Finite(-(10 * Scale) - 1)>>,
     <<Finite(3 * Scale), NaNNumber>>}

\* angles of attack in radians: 0, 0.01, 0.011, 5 degrees either way, 30
\* degrees
AngleChoices == {0, 10, 11, 87, -87, 524}

SolutionsToValidate ==
    {[residual |-> r, clGamma |-> g,
      clPressure |-> IF g.nan THEN Finite(0) ELSE Finite(g.v + dd),
      cp |-> cp] :
        r \in ResidualChoices, g \in ClGammaChoices,
        dd \in ClDifferenceChoices, cp \in CpChoices}

ValidateInit ==
    /\ GeomIdle
    /\ SolveIdle
    /\ StreamIdle
    /\ call = CallIdle
    /\ tab = TabIdle
    /\ store = StoreIdle
    /\ \E solution \in SolutionsToValidate, alpha \in AngleChoices :
         validation = [ValidationIdle EXCEPT
                         !.pc = "called",
                         !.solution = solution,
                         !.flow = [velocity |-> 10 * Scale,
                                   angleOfAttack |-> alpha]]

\* the call and its return
ValidateSolutionCall ==
    /\ validation.pc = "called"
    /\ LET result == ValidateSolution(validation.solution, NoGeometry,
                                     validation.flow)
       IN  validation' = [validation EXCEPT
                            !.pc = "returned",
                            !.isValid = result.isValid,
                            !.warnings = result.warnings]
    /\ UNCHANGED <<geomVars, solveVars, streamVars, call, tab, store>>

ValidateNext == ValidateSolutionCall

ValidateSpec == ValidateInit /\ [][ValidateNext]_vars



---------------------------------------------------------------------------
(* A panel's influence on its own control point                            *)

\* The control-point offset is far below a thousandth of the chord.  In
\* this section a length has two parts: thousandths, as everywhere, and a
\* fine part in units of 1e-13; params.epsilon counts units of 1e-10, so
\* that epsilon times a chord in thousandths is a fine part.

\* SINGULARITY_THRESHOLD = 1e-10, in units of 1e-13
SingularityThreshold == 1000

\* panelize: Math.max(...xCoords) - Math.min(...xCoords)
ChordEstimate(points) == MaxX(points, Len(points)) - MinX(points, Len(points))

\* panelize: const epsilon = params.epsilon * chord
ControlPointOffset(epsilon, chord) == epsilon * chord

\* panelize: controlPoint - (midX, midY) = -epsilon * normal
ControlPointNudge(offset, normal) ==
    [x |-> -DivR(offset * normal.x, Scale),
     y |-> -DivR(offset * normal.y, Scale)]

\* globalToLocal(panel.controlPoint, panel): the map is linear, so the
\* midpoint and the nudge are rotated apart (X, Y in thousandths, Xf, Yf
\* fine)
SelfLocal(panel, offset) ==
    LET mid    == Point(DivR(panel.x1 + panel.x2, 2),
                        DivR(panel.y1 + panel.y2, 2))
        coarse == GlobalToLocal(mid, panel)
        fine   == GlobalToLocal(ControlPointNudge(offset, panel.normal),
                                [x1 |-> 0, y1 |-> 0,
                                 tangent |-> panel.tangent])
    IN  [X |-> coarse.x, Y |-> coarse.y, Xf |-> fine.x, Yf |-> fine.y]

\* Math.abs(v) < SINGULARITY_THRESHOLD of a two-part number
BelowThreshold(coarse, fine) ==
    coarse = 0 /\ Abs(fine) < SingularityThreshold

\* the early returns of both kernels (lines 40-46 and 53-56, 93-97 and
\* 103-106) at a two-part local point
SelfOnPanel(local, L) ==
    \/ /\ BelowThreshold(local.Y, local.Yf)
       /\ local.X > 0 \/ (local.X = 0 /\ local.Xf >= -SingularityThreshold)
       /\ local.X < L \/ (local.X = L /\ local.Xf <= SingularityThreshold)
    \/ /\ BelowThreshold(local.Y, local.Yf)
       /\ \/ BelowThreshold(local.X, local.Xf)
          \/ BelowThreshold(local.X - L, local.Xf)
       /\ local.Xf * local.Xf + local.Yf * local.Yf
            < SingularityThreshold * SingularityThreshold

\* closed point loops with exact midpoints and unit tangents: a flat box
\* and a 3-4-5 triangle of the given chord
SelfLoops(chord) ==
    {<<Point(chord, 0), Point(0, 0), Point(0, chord \div 4),
       Point(chord, chord \div 4), Point(chord, 0)>>,
     <<Point(chord, 0), Point(0, 0), Point(0, (3 * chord) \div 4),
       Point(chord, 0)>>}

\* chords of 0.04, 0.08, 0.8 and 1.6
SelfChords == {40, 80, 800, 1600}

\* 1e-10, 1e-9 (the default and what PanelTab passes) and 1e-8
SelfEpsilons == {1, 10, 100}

SelfInit ==
    /\ GeomIdle
    /\ SolveIdle
    /\ StreamIdle
    /\ validation = ValidationIdle
    /\ tab = TabIdle
    /\ store = StoreIdle
    /\ \E fn \in {"sourceInfluence", "vortexInfluence"},
          chord \in SelfChords, epsilon \in SelfEpsilons :
         \E points \in SelfLoops(chord) :
           \E i \in 0..(Len(points) - 2) :
             call = [pc |-> "called", fn |-> fn, points |-> points,
                     epsilon |-> epsilon, i |-> i, offset |-> 0,
                     local |-> [X |-> 0, Y |-> 0, Xf |-> 0, Yf |-> 0],
                     formula |-> FALSE]

\* buildSourceInfluenceMatrix, i = j (buildVortexInfluenceVector, j = i):
\* the kernel of panel i at panels[i].controlPoint, up to the branch it
\* takes
SelfInfluence ==
    /\ call.pc = "called"
    /\ LET panel  == PanelAt(call.points, call.i, 0)
           offset == ControlPointOffset(call.epsilon,
                                        ChordEstimate(call.points))
           local  == SelfLocal(panel, offset)
       IN  call' = [call EXCEPT
                      !.pc = "returned",
                      !.offset = offset,
                      !.local = local,
                      !.formula = ~SelfOnPanel(local, panel.length)]
    /\ UNCHANGED <<geomVars, solveVars, streamVars, validation, tab, store>>

SelfNext == SelfInfluence

SelfSpec == SelfInit /\ [][SelfNext]_vars

---------------------------------------------------------------------------
(* The superposition: assembler, field evaluator, surface velocities       *)

\* Strengths (sigma_j, Gamma) are exact rationals here.  A kernel is linear
\* in its strength (influence.ts lines 60-65 and 110-115 multiply the
\* strength into both components): its value is the strength times the
\* value at unit strength, which is computed in thousandths as before.

\* sourceInfluence(fieldPoint, panel, sourceStrength)
SourceVelocity(fieldPoint, panel, sourceStrength) ==
    LET unit == CHOOSE u \in {SourceInfluence(fieldPoint, panel,
                                              [v |-> Scale, nan |-> FALSE])} :
                  TRUE
    IN  [x |-> RMul(sourceStrength, RInt(unit.x)),
         y |-> RMul(sourceStrength, RInt(unit.y))]

\* vortexInfluence(fieldPoint, panel, vortexStrength)
VortexVelocity(fieldPoint, panel, vortexStrength) ==
    LET unit == CHOOSE u \in {VortexInfluence(fieldPoint, panel,
                                              [v |-> Scale, nan |-> FALSE])} :
                  TRUE
    IN  [x |-> RMul(vortexStrength, RInt(unit.x)),
         y |-> RMul(vortexStrength, RInt(unit.y))]

\* dot(velocity, direction) with the direction in thousandths
RDot(velocity, direction) ==
    RAdd(RMul(velocity.x, RInt(direction.x)),
         RMul(velocity.y, RInt(direction.y)))

\* a circulation of one spread over no share at all
UnitCirculationUndivided(n) == RInt(1)

\* buildVortexInfluenceVector: const unitCirculationPerPanel = 1.0 / n
UnitCirculationPerPanel(n) == Rat(1, n)

\* buildSourceInfluenceMatrix: row i, matrix[i][j] for j = 0..n-1
SourceInfluenceRow(panels, i) ==
    [j \in 1..Len(panels) |->
        RDot(SourceVelocity(At(panels, i).controlPoint, panels[j], RInt(1)),
             At(panels, i).normal)]

\* buildVortexInfluenceVector: vector[i]
VortexInfluenceEntry(panels, i) ==
    LET n == Len(panels)
    IN  RSum([j \in 1..n |->
                RDot(VortexVelocity(At(panels, i).controlPoint, panels[j],
                                    UnitCirculationPerPanel(n)),
                     At(panels, i).normal)], n)

\* solvePanelMethod: rhs[i] = -(freestream.x * normal.x + freestream.y *
\* normal.y)
BoundaryRhs(panels, i, freestream) ==
    RInt(-(freestream.x * At(panels, i).normal.x
             + freestream.y * At(panels, i).normal.y))

\* totalVelocity, in exact strengths
TotalVelocityRat(fieldPoint, panels, sourceStrengths, totalCirculation, freestream) ==
    LET n == Len(panels)
        circulationPerPanel == RDiv(totalCirculation, RInt(n))
        sourceVel == [j \in 1..n |->
                        SourceVelocity(fieldPoint, panels[j],
                                       sourceStrengths[j])]
        vortexVel == [j \in 1..n |->
                        VortexVelocity(fieldPoint, panels[j],
                                       circulationPerPanel)]
    IN  [x |-> RAdd(RInt(freestream.x),
                    RAdd(RSum([j \in 1..n |-> sourceVel[j].x], n),
                         RSum([j \in 1..n |-> vortexVel[j].x], n))),
         y |-> RAdd(RInt(freestream.y),
                    RAdd(RSum([j \in 1..n |-> sourceVel[j].y], n),
                         RSum([j \in 1..n |-> vortexVel[j].y], n)))]

\* solvePanelMethod lines 93-111: vt[i]
SurfaceTangentialVelocity(panels, i, sigma, gamma, freestream) ==
    LET n == Len(panels)
        controlPoint  == At(panels, i).controlPoint
        tangent       == At(panels, i).tangent
        gammaPerPanel == RDiv(gamma, RInt(n))
    IN  RAdd(RInt(freestream.x * tangent.x + freestream.y * tangent.y),
             RAdd(RSum([j \in 1..n |->
                          RDot(SourceVelocity(controlPoint, panels[j],
                                              sigma[j]), tangent)], n),
                  RSum([j \in 1..n |->
                          RDot(VortexVelocity(controlPoint, panels[j],
                                              gammaPerPanel), tangent)], n)))

(* Inputs: panel sets of 1 to 6 panels, strengths, freestreams             *)

SuperpositionPanels ==
    {Panelize(points, [nPanels |-> n, epsilon |-> Scale \div 100]) :
        points \in SelfLoops(Scale), n \in 1..3}
    \cup {StreamGeometry(<<"0", "0", "4", "0">>).panels}

\* no sources, uniform sources, sources of alternating sign
SigmaChoices(n) ==
    {[j \in 1..n |-> RInt(0)],
     [j \in 1..n |-> Rat(1, 2)],
     [j \in 1..n |-> Rat(IF j % 2 = 0 THEN j ELSE -j, 3)]}

GammaChoices == {RInt(0), RInt(1), Rat(-3, 2)}

\* 1 m/s along x, and 10 m/s at 5 degrees
FreestreamChoices == {Vector(Scale, 0), Vector(9962, 872)}

SuperpositionInit ==
    /\ GeomIdle
    /\ SolveIdle
    /\ StreamIdle
    /\ validation = ValidationIdle
    /\ tab = TabIdle
    /\ store = StoreIdle
    /\ \E panels \in SuperpositionPanels, gamma \in GammaChoices,
          freestream \in FreestreamChoices :
         \E sigma \in SigmaChoices(Len(panels)),
            i \in 0..(Len(panels) - 1) :
           call = [pc |-> "called", fn |-> "solvePanelMethod",
                   panels |-> panels, sigma |-> sigma, gamma |-> gamma,
                   freestream |-> freestream, i |-> i,
                   row |-> <<>>, bGamma |-> RInt(0), rhs |-> RInt(0),
                   velocity |-> [x |-> RInt(0), y |-> RInt(0)],
                   vt |-> RInt(0)]

\* solvePanelMethod lines 39-63: row i of the extended matrix and rhs[i]
AssembleRow ==
    /\ call.pc = "called"
    /\ call.fn = "solvePanelMethod"
    /\ call' = [call EXCEPT
                  !.pc = "assembled",
                  !.row = SourceInfluenceRow(call.panels, call.i),
                  !.bGamma = VortexInfluenceEntry(call.panels, call.i),
                  !.rhs = BoundaryRhs(call.panels, call.i, call.freestream)]
    /\ UNCHANGED <<geomVars, solveVars, streamVars, validation, tab, store>>

\* totalVelocity at control point i with the strengths sigma and Gamma
TotalVelocityAtControlPoint ==
    /\ call.pc = "assembled"
    /\ call' = [call EXCEPT
                  !.pc = "evaluated",
                  !.velocity =
                      TotalVelocityRat(At(call.panels, call.i).controlPoint,
                                       call.panels, call.sigma, call.gamma,
                                       call.freestream)]
    /\ UNCHANGED <<geomVars, solveVars, streamVars, validation, tab, store>>

\* solvePanelMethod lines 93-111 for panel i
ReconstructTangentialVelocity ==
    /\ call.pc = "evaluated"
    /\ call' = [call EXCEPT
                  !.pc = "returned",
                  !.vt = SurfaceTangentialVelocity(call.panels, call.i,
                                                   call.sigma, call.gamma,
                                                   call.freestream)]
    /\ UNCHANGED <<geomVars, solveVars, streamVars, validation, tab, store>>

SuperpositionNext ==
    \/ AssembleRow
    \/ TotalVelocityAtControlPoint
    \/ ReconstructTangentialVelocity

SuperpositionSpec == SuperpositionInit /\ [][SuperpositionNext]_vars

---------------------------------------------------------------------------
(* The demo store, useDemoStore                                            *)

\* Numbers are in thousandths, except angleOfAttack (whole degrees) and
\* nPanels (a count).

\* a clamp that keeps the lower limit only
ClampBelowOnly(lo, hi, value) == Max(lo, value)

\* Math.max(lo, Math.min(hi, value))
Clamp(lo, hi, value) == Max(lo, Min(hi, value))

\* Math.round of a number in thousandths: the nearest integer, a half
\* going up
MathRound(value) == (value + Scale \div 2) \div Scale

\* defaultState
DefaultState ==
    [pc |-> "created",
     activeTab |-> "ett",
     showStreamlines |-> FALSE,
     nacaDigits |-> DefaultNacaDigits,
     chord |-> DefaultChord,
     velocity |-> DefaultVelocity,
     density |-> 1225,
     angleOfAttack |-> DefaultAngleOfAttack,
     nPanels |-> DefaultNPanels,
     pathDiffPercent |-> Scale,
     span |-> 10 * Scale,
     area |-> 20 * Scale]

\* the setNacaDigits call, while it is the last action on the store, with
\* the string it was given
StoreCall(fn, digits) == [pc |-> "returned", fn |-> fn, digits |-> digits]

\* 2412, and strings that are not four digits: short, long, with a letter
StoreDigitInputs ==
    {<<"2", "4", "1", "2">>,
     <<"1", "2", "3">>,
     <<"1", "2", "3", "4", "5">>,
     <<"1", "2", "x", "4">>}

\* create(...): the store holds defaultState
StoreInit ==
    /\ GeomIdle
    /\ SolveIdle
    /\ StreamIdle
    /\ validation = ValidationIdle
    /\ call = CallIdle
    /\ tab = TabIdle
    /\ store = DefaultState

StoreUnchanged == UNCHANGED <<geomVars, solveVars, streamVars, validation, tab>>

SetActiveTab ==
    /\ store.pc = "created"
    /\ \E t \in {"ett", "panel", "trefftz"} :
         store' = [store EXCEPT !.activeTab = t]
    /\ call' = CallIdle
    /\ StoreUnchanged

SetShowStreamlines ==
    /\ store.pc = "created"
    /\ \E show \in BOOLEAN :
         store' = [store EXCEPT !.showStreamlines = show]
    /\ call' = CallIdle
    /\ StoreUnchanged

\* setNacaDigits: set only when /^\d{4}$/ accepts the string
SetNacaDigits ==
    /\ store.pc = "created"
    /\ \E digits \in StoreDigitInputs :
         /\ store' = IF IsFourDigits(digits)
                     THEN [store EXCEPT !.nacaDigits = digits]
                     ELSE store
         /\ call' = StoreCall("setNacaDigits", digits)
    /\ StoreUnchanged

\* setChord: 0.05 and 20
SetChord ==
    /\ store.pc = "created"
    /\ \E chord \in {50, 20 * Scale} :
         store' = [store EXCEPT !.chord = Clamp(100, 10 * Scale, chord)]
    /\ call' = CallIdle
    /\ StoreUnchanged

\* setVelocity: 0.5 and 2000
SetVelocity ==
    /\ store.pc = "created"
    /\ \E velocity \in {500, 2000 * Scale} :
         store' = [store EXCEPT
                     !.velocity = Clamp(Scale, 1000 * Scale, velocity)]
    /\ call' = CallIdle
    /\ StoreUnchanged

\* setDensity: 0.05 and 10.5
SetDensity ==
    /\ store.pc = "created"
    /\ \E density \in {50, 10500} :
         store' = [store EXCEPT !.density = Clamp(100, 10 * Scale, density)]
    /\ call' = CallIdle
    /\ StoreUnchanged

\* setAngleOfAttack: -45 and 31 degrees
StoreSetAngleOfAttack ==
    /\ store.pc = "created"
    /\ \E aoa \in {-45, 31} :
         store' = [store EXCEPT !.angleOfAttack = ClampAngleOfAttack(aoa)]
    /\ call' = CallIdle
    /\ StoreUnchanged

\* setNPanels: 59.4, 120.5 and 500
StoreSetNPanels ==
    /\ store.pc = "created"
    /\ \E nPanels \in {59400, 120500, 500 * Scale} :
         store' = [store EXCEPT !.nPanels = ClampNPanels(MathRound(nPanels))]
    /\ call' = CallIdle
    /\ StoreUnchanged

\* setPathDiffPercent: -1 and 25
SetPathDiffPercent ==
    /\ store.pc = "created"
    /\ \E percent \in {-Scale, 25 * Scale} :
         store' = [store EXCEPT
                     !.pathDiffPercent = Clamp(0, 20 * Scale, percent)]
    /\ call' = CallIdle
    /\ StoreUnchanged

\* setSpan: 0.5 and 150
SetSpan ==
    /\ store.pc = "created"
    /\ \E span \in {500, 150 * Scale} :
         store' = [store EXCEPT !.span = Clamp(Scale, 100 * Scale, span)]
    /\ call' = CallIdle
    /\ StoreUnchanged

\* setArea: 0 and 1500
SetArea ==
    /\ store.pc = "created"
    /\ \E area \in {0, 1500 * Scale} :
         store' = [store EXCEPT !.area = Clamp(Scale, 1000 * Scale, area)]
    /\ call' = CallIdle
    /\ StoreUnchanged

\* resetToDefaults: set(defaultState)
ResetToDefaults ==
    /\ store.pc = "created"
    /\ store' = DefaultState
    /\ call' = CallIdle
    /\ StoreUnchanged

ResetEttParams ==
    /\ store.pc = "created"
    /\ store' = [store EXCEPT
                   !.velocity = DefaultState.velocity,
                   !.density = DefaultState.density,
                   !.chord = DefaultState.chord,
                   !.pathDiffPercent = DefaultState.pathDiffPercent,
                   !.angleOfAttack = DefaultState.angleOfAttack]
    /\ call' = CallIdle
    /\ StoreUnchanged

\* resetPanelParams, on the store
StoreResetPanelParams ==
    /\ store.pc = "created"
    /\ store' = [store EXCEPT
                   !.nacaDigits = DefaultState.nacaDigits,
                   !.chord = DefaultState.chord,
                   !.velocity = DefaultState.velocity,
                   !.angleOfAttack = DefaultState.angleOfAttack,
                   !.nPanels = DefaultState.nPanels,
                   !.density = DefaultState.density,
                   !.showStreamlines = DefaultState.showStreamlines]
    /\ call' = CallIdle
    /\ StoreUnchanged

ResetTrefftzParams ==
    /\ store.pc = "created"
    /\ store' = [store EXCEPT
                   !.span = DefaultState.span,
                   !.area = DefaultState.area,
                   !.velocity = DefaultState.velocity,
                   !.density = DefaultState.density]
    /\ call' = CallIdle
    /\ StoreUnchanged

StoreNext ==
    \/ SetActiveTab
    \/ SetShowStreamlines
    \/ SetNacaDigits
    \/ SetChord
    \/ SetVelocity
    \/ SetDensity
    \/ StoreSetAngleOfAttack
    \/ StoreSetNPanels
    \/ SetPathDiffPercent
    \/ SetSpan
    \/ SetArea
    \/ ResetToDefaults
    \/ ResetEttParams
    \/ StoreResetPanelParams
    \/ ResetTrefftzParams

StoreSpec == StoreInit /\ [][StoreNext]_vars

---------------------------------------------------------------------------
(* Claims about the geometry generator, checked under GeomSpec             *)

\* the surface points naca4 computes at the chord station x = chord
TrailingEdgePoints ==
    LET h == HalfPoints(nacaParams.nPoints)
    IN  {SurfacePoint(h, h, nacaParams.digits, nacaParams.chord, TRUE),
         SurfacePoint(h, h, nacaParams.digits, nacaParams.chord, FALSE)}

PanelStart(panel) == Point(panel.x1, panel.y1)

PanelEnd(panel) == Point(panel.x2, panel.y2)

\* ranges of NacaParametersSchema and PanelMethodParametersSchema
OutOfRange ==
    \/ nacaParams.nPoints < 20 \/ nacaParams.nPoints > 500
    \/ nacaParams.chord <= 0
    \/ panelParams.nPanels < 20 \/ panelParams.nPanels > 500
    \/ panelParams.epsilon <= 0

\* a section at least 20% thick whose loop holds no NaN, with every
\* parameter inside the range its schema declares
ProperAirfoil(points) ==
    /\ ~AnyNaN(points)
    /\ NacaT(nacaParams.digits) >= Scale \div 5
    /\ ~OutOfRange

TouchesTrailingEdge(panel) ==
    PanelStart(panel) \in TrailingEdgePoints
        \/ PanelEnd(panel) \in TrailingEdgePoints

\* C1: in every returned geometry the panels at teUpperIndex and teLowerIndex
\* are the two panels that touch the trailing edge (chord station x = chord),
\* and the Kutta row is built from the control points and tangents of exactly
\* these two panels.
C1_KuttaPanelsTouchTrailingEdge ==
    (geo.pc = "kutta" /\ ProperAirfoil(geo.geometry.points)) =>
        LET g == geo.geometry
        IN  /\ g.teUpperIndex = 0
            /\ g.teLowerIndex = Len(g.panels) - 1
            /\ TouchesTrailingEdge(At(g.panels, g.teUpperIndex))
            /\ TouchesTrailingEdge(At(g.panels, g.teLowerIndex))
            /\ kutta.upperControlPoint = At(g.panels, g.teUpperIndex).controlPoint
            /\ kutta.upperTangent = At(g.panels, g.teUpperIndex).tangent
            /\ kutta.lowerControlPoint = At(g.panels, g.teLowerIndex).controlPoint
            /\ kutta.lowerTangent = At(g.panels, g.teLowerIndex).tangent

\* C2: in every returned geometry the panels form a closed chain over the
\* whole point loop: panel i runs from loop point i to the next loop point,
\* each panel ends where panel (i+1) mod n starts, and the last panel ends
\* where panel 0 starts.
C2_PanelsFormClosedChain ==
    (geo.pc = "returned" /\ ProperAirfoil(geo.geometry.points)) =>
        LET g == geo.geometry
            n == Len(g.panels)
            m == Len(g.points)
        IN  /\ n > 0
            /\ \A i \in 0..(n - 1) :
                 /\ PanelStart(At(g.panels, i)) = At(g.points, i)
                 /\ PanelEnd(At(g.panels, i)) = At(g.points, (i + 1) % m)
                 /\ PanelEnd(At(g.panels, i))
                      = PanelStart(At(g.panels, (i + 1) % n))

\* C3: for every panel of a naca4 + panelize geometry the stored normal
\* points out of the body (a point displaced from the midpoint along the
\* normal is not inside the contour) and the control point is displaced
\* inward (it is inside the contour).
C3_NormalOutwardControlPointInward ==
    (geo.pc = "returned" /\ ProperAirfoil(geo.geometry.points)) =>
        LET g == geo.geometry
        IN  \A i \in 0..(Len(g.panels) - 1) :
              LET panel == At(g.panels, i)
                  midX  == DivR(panel.x1 + panel.x2, 2)
                  midY  == DivR(panel.y1 + panel.y2, 2)
                  probe == Point(2 * midX - panel.controlPoint.x,
                                 2 * midY - panel.controlPoint.y)
              IN  /\ ~IsInsideAirfoil(probe, g.points)
                  /\ IsInsideAirfoil(panel.controlPoint, g.points)

\* C4: the loop naca4 returns starts at the upper-surface trailing-edge
\* point, lists the upper surface from trailing edge to leading edge, then
\* the lower surface from leading edge to trailing edge, and closes back
\* onto its first point.
C4_LoopStartsAtUpperTrailingEdge ==
    (geo.pc = "panelize" /\ ProperAirfoil(geo.points)) =>
        LET h   == HalfPoints(nacaParams.nPoints)
            pts == geo.points
        IN  /\ At(pts, 0) = SurfacePoint(h, h, nacaParams.digits,
                                         nacaParams.chord, TRUE)
            /\ \A k \in 1..h : At(pts, k).x <= At(pts, k - 1).x
            /\ \A k \in (h + 1)..(Len(pts) - 1) : At(pts, k).x >= At(pts, k - 1).x
            /\ At(pts, Len(pts) - 1) = At(pts, 0)

\* C6: createAirfoilGeometry throws for every code that is not exactly four
\* decimal digits, before any point or panel is computed, and returns no
\* geometry then; every code of exactly four decimal digits is accepted.
C6_RejectsExactlyMalformedCodes ==
    geo.pc # "start" =>
        LET d    == nacaParams.digits
            four == Len(d) = 4 /\ \A i \in 1..Len(d) : d[i] \in DigitChars
        IN  /\ (geo.pc = "thrown") <=> ~four
            /\ geo.pc = "thrown" =>
                 geo.points = <<>> /\ geo.geometry = NoGeometry

C6_Witness_FiveDigitCodeThrown ==
    /\ geo.pc = "thrown"
    /\ Len(nacaParams.digits) = 5
    /\ \A i \in 1..5 : nacaParams.digits[i] \in DigitChars

\* C7: createAirfoilGeometry rejects out-of-range geometric parameters
\* (point count, chord, panel count, epsilon) with an error before any
\* computation, as it does for a malformed code.
C7_RejectsOutOfRangeParameters ==
    (geo.pc # "start" /\ OutOfRange) => geo.pc = "thrown"


---------------------------------------------------------------------------
(* Claims about the linear solve                                           *)

\* |a| >= the pivot threshold; false for NaN
AtLeastThreshold(a) ==
    ~RIsNaN(a) /\ ~RLt(RAbs(a), RInt(PivotThreshold))

\* the pivots used: after iteration k row k is never written again
PivotsUsed == {Cell(lin.augmented, k, k) : k \in 0..(lin.k - 1)}

\* C5: solvePanelMethod throws exactly when the pivot chosen by partial
\* pivoting is below 1e-14 in magnitude, and whenever it returns a solution
\* every pivot used in the elimination was at least 1e-14 in magnitude.
C5_ThrowsOnSmallPivotReturnsOnLargePivots ==
    /\ lin.pc = "thrown" =>
          /\ panelSolution = NoSolution
          /\ \A i \in lin.k..(Len(lin.augmented) - 1) :
                RLt(RAbs(Cell(lin.augmented, i, lin.k)),
                    RInt(PivotThreshold))
    /\ lin.pc = "returned" =>
          /\ lin.k = Len(lin.augmented)
          /\ \A pivot \in PivotsUsed : AtLeastThreshold(pivot)

---------------------------------------------------------------------------
(* Claims about the streamline tracer and the field generator              *)

\* xMin <= x <= xMax and yMin <= y <= yMax; false for a NaN
InsideBox(point, bounds) ==
    /\ ~point.nan
    /\ ~bounds.nan
    /\ bounds.xMin <= point.x /\ point.x <= bounds.xMax
    /\ bounds.yMin <= point.y /\ point.y <= bounds.yMax

LeftTheBoxStops == {"midPointOutOfBounds", "nextPointOutOfBounds"}

EnteredTheBodyStops == {"midPointInsideAirfoil", "nextPointInsideAirfoil"}

\* the flag and the reason of a finished trace agree, and the reason is
\* what the tested point shows
C8_FlagMatchesReason ==
    trace.pc = "done" =>
        /\ trace.complete <=> trace.stop \in LeftTheBoxStops
        /\ trace.complete =>
             /\ ~trace.tried.nan
             /\ ~InsideBox(trace.tried, trace.params.bounds)
        /\ trace.stop \in EnteredTheBodyStops =>
             IsInsideAirfoil(trace.tried, scene.geometry.points)
        /\ trace.stop = "startInsideAirfoil" =>
             /\ IsInsideAirfoil(trace.startPoint, scene.geometry.points)
             /\ trace.points = <<trace.startPoint>>
        /\ trace.stop = "maxSteps" =>
             trace.iterations = trace.params.maxSteps
        /\ trace.stop \in LeftTheBoxStops \cup EnteredTheBodyStops =>
             trace.points[Len(trace.points)] # trace.tried

\* a finished trace is returned as it is
C8_NothingAddedAfterStop ==
    trace.pc = "done" =>
        \/ trace' = trace
        \/ /\ trace'.pc = "idle"
           /\ field'.streamlines \in
                {field.streamlines,
                 Append(field.streamlines,
                        [points |-> trace.points,
                         complete |-> trace.complete])}

\* C8: for every streamline traceStreamline returns, complete is true
\* exactly when the integration stopped because the midpoint or the end
\* point of a step fell outside the bounding box; it is false after a start
\* inside the airfoil, a speed below minVelocity, a midpoint or end point
\* inside the airfoil, and after maxSteps iterations.  Once the loop has
\* stopped no point is added.
C8_CompleteIffLeftTheBox ==
    [](C8_FlagMatchesReason) /\ [][C8_NothingAddedAfterStop]_vars

C8_Witness_StoppedAtTheBoxAfterSteps ==
    /\ trace.pc = "done"
    /\ trace.complete
    /\ trace.stop = "nextPointOutOfBounds"
    /\ Len(trace.points) > 2

\* C9: every point of every streamline generateStreamlineField returns
\* (seedDistance >= 0, yRange >= 0) lies in the field's bounding box, edges
\* included, and is not inside the airfoil contour by the ray-casting test.
C9_StreamlinePointsInBoxOutsideBody ==
    (/\ field.pc = "returned"
     /\ field.params.seedDistance >= 0
     /\ field.params.yRange >= 0) =>
        \A s \in 1..Len(field.streamlines) :
            \A k \in 1..Len(field.streamlines[s].points) :
                LET point == field.streamlines[s].points[k]
                IN  /\ InsideBox(point, field.bounds)
                    /\ ~IsInsideAirfoil(point, scene.geometry.points)

C10_WorkIsBounded ==
    /\ trace.iterations <= trace.params.maxSteps
    /\ Len(trace.points) <= trace.iterations + 1
    /\ Len(trace.points) <= trace.params.maxSteps + 1
    /\ field.i <= field.params.nStreamlines
    /\ field.traced <= field.i + (IF field.pc = "tracing" THEN 1 ELSE 0)
    /\ field.traced <= field.params.nStreamlines
    /\ Len(field.streamlines) <= field.traced

\* what a trace has left to do: passes of the loop not yet made, and the
\* position inside the current pass
TraceRemaining ==
    LET passes == trace.params.maxSteps - trace.step
    IN  CASE trace.pc = "entered"     -> 4 * trace.params.maxSteps + 2
          [] trace.pc = "loop"        -> 4 * passes + 1
          [] trace.pc = "halfStep"    -> 4 * passes
          [] trace.pc = "midVelocity" -> 4 * passes - 1
          [] trace.pc = "fullStep"    -> 4 * passes - 2
          [] OTHER                    -> 0

\* what the field generator has left to do: seeds not yet visited, each
\* worth more than one whole trace
FieldRemaining ==
    LET seeds == field.params.nStreamlines - field.i
        worth == 4 * field.params.maxSteps + 6
    IN  CASE field.pc = "entered" -> seeds * worth + 2
          [] field.pc = "loop"    -> seeds * worth + 1
          [] field.pc = "tracing" -> (seeds - 1) * worth + 2
          [] OTHER                -> 0

C10_Remaining == FieldRemaining + TraceRemaining

\* C10: traceStreamline always terminates; it runs at most maxSteps loop
\* iterations, adds at most one point per iteration and returns at most
\* maxSteps + 1 points.  generateStreamlineField traces each of its
\* nStreamlines seeds at most once, returns at most nStreamlines
\* streamlines, and terminates: every step of either call lowers a natural
\* number, the work that remains.
C10_TracingTerminatesWithinMaxSteps ==
    /\ [](C10_WorkIsBounded /\ C10_Remaining >= 0)
    /\ [][C10_Remaining' < C10_Remaining]_vars

C10_Witness_EverySeedTracedToMaxSteps ==
    /\ field.pc = "returned"
    /\ field.params.nStreamlines > 1
    /\ Len(field.streamlines) = field.params.nStreamlines
    /\ \A s \in 1..Len(field.streamlines) :
         /\ Len(field.streamlines[s].points) = field.params.maxSteps + 1
         /\ ~field.streamlines[s].points[1].nan
---------------------------------------------------------------------------
(* Claims about the streamline field, checked under StreamSpec             *)

\* the seed of iteration i of the running generateStreamlineField call
SeedOf(i) == SeedPoint(i, field.params, field.bounds)

\* the kept streamline k starts at a seed of an iteration already run, that
\* seed is not inside the airfoil, and it has at least 6 points
KeptFromSeed(k, i) ==
    /\ At(field.streamlines[k].points, 0) = SeedOf(i)
    /\ ~IsInsideAirfoil(SeedOf(i), scene.geometry.points)
    /\ Len(field.streamlines[k].points) >= 6

C11_KeptAreLongAndInSeedOrder ==
    field.pc \in {"loop", "tracing", "returned"} =>
        /\ \A k \in 1..Len(field.streamlines) :
              \E i \in 0..(field.i - 1) : KeptFromSeed(k, i)
        /\ \A k, l \in 1..Len(field.streamlines) :
              k < l => \E i, j \in 0..(field.i - 1) :
                          i < j /\ KeptFromSeed(k, i) /\ KeptFromSeed(l, j)

\* a step of generateStreamlineField changes the list only by appending
\* the streamline just traced, and it appends it exactly when that
\* streamline has at least 6 points, whatever its complete flag
C11_AppendedIffSixPoints ==
    field'.streamlines =
        IF field.pc = "tracing" /\ trace.pc = "done"
           /\ Len(trace.points) >= 6
        THEN Append(field.streamlines,
                    [points |-> trace.points, complete |-> trace.complete])
        ELSE IF field.pc = "entered" THEN <<>>
        ELSE field.streamlines

\* C11: the streamlines of a StreamlineField are exactly the traced
\* streamlines, in seed order, whose seed is not inside the airfoil and
\* that accumulated at least 6 points; a streamline with fewer than 6
\* points is dropped regardless of its complete flag.
C11_FieldKeepsExactlyLongStreamlines ==
    [](C11_KeptAreLongAndInSeedOrder) /\ [][C11_AppendedIffSixPoints]_vars

\* a returned field that kept a streamline and dropped a complete one
C11_Witness_KeptOneDroppedACompleteOne ==
    /\ field.pc = "returned"
    /\ Len(field.streamlines) >= 1
    /\ Len(field.streamlines) < field.traced

\* the positions traceStreamline can be at; it has no throw statement
TracePositions ==
    {"idle", "entered", "loop", "halfStep", "midVelocity", "fullStep", "done"}

\* the positions generateStreamlineField can be at
FieldPositions == {"idle", "entered", "loop", "tracing", "returned"}

\* seed inside the body, stagnation, body entry, step cap
EarlyStops ==
    {"startInsideAirfoil", "lowSpeedAtCurrentPoint", "lowSpeedAtMidPoint",
     "midPointInsideAirfoil", "nextPointInsideAirfoil", "maxSteps"}

\* C12: traceStreamline and generateStreamlineField never raise an error,
\* whatever the geometry, solution, flow and parameters (NaN ones included):
\* a call is always at a position of its code (none of them an error exit),
\* a returned trace holds at least its start point, and every early
\* termination (seed inside the body, stagnation,
\* body entry, step cap) is returned as a streamline with complete = false.
C12_EarlyTerminationIsData ==
    /\ trace.pc \in TracePositions
    /\ field.pc \in FieldPositions
    /\ trace.pc = "done" =>
          /\ Len(trace.points) >= 1
          /\ trace.stop \in EarlyStops \cup LeftTheBoxStops
          /\ trace.stop \in EarlyStops => trace.complete = FALSE
    /\ field.pc = "returned" =>
          \A k \in 1..Len(field.streamlines) :
             /\ Len(field.streamlines[k].points) >= 1
             /\ field.streamlines[k].complete \in BOOLEAN

\* a traced seed of a field stopped by entering the body after it moved
C12_Witness_BodyEntryReturnedIncomplete ==
    /\ field.pc = "tracing"
    /\ trace.pc = "done"
    /\ trace.stop \in EnteredTheBodyStops
    /\ Len(trace.points) >= 2
    /\ trace.complete = FALSE

---------------------------------------------------------------------------
(* Claims about validateSolution, checked under ValidateSpec               *)

WarningKinds ==
    {"High residual", "CL deviates significantly from thin-airfoil theory",
     "CL methods disagree", "Extreme Cp values"}

Warned(kind) ==
    \E k \in 1..Len(validation.warnings) : validation.warnings[k] = kind

\* |clGamma - 2 pi alpha| is more than half of |2 pi alpha|: at alpha = 0
\* every non-zero clGamma deviates
LargeDeviation ==
    /\ ~validation.solution.clGamma.nan
    /\ 2 * Abs(validation.solution.clGamma.v
               - Mul(2 * PiFx, validation.flow.angleOfAttack))
         > Abs(Mul(2 * PiFx, validation.flow.angleOfAttack))

\* a small angle of attack: |alpha| below about 6 degrees (0.105 rad)
SmallAngle == Abs(validation.flow.angleOfAttack) < 105

\* the three warnings that do not depend on the angle of attack, and
\* nothing but the four kinds
C13_AngleFreeWarnings ==
    /\ Warned("High residual") <=>
          (~validation.solution.residual.nan
           /\ validation.solution.residual.v > 10)
    /\ Warned("CL methods disagree") <=>
          (/\ ~validation.solution.clGamma.nan
           /\ ~validation.solution.clPressure.nan
           /\ Abs(validation.solution.clGamma.v
                  - validation.solution.clPressure.v) > Scale \div 10)
    /\ Warned("Extreme Cp values") <=>
          (/\ \A i \in 1..Len(validation.solution.cp) :
                 ~validation.solution.cp[i].nan
           /\ \E i \in 1..Len(validation.solution.cp) :
                 \/ validation.solution.cp[i].v > 2 * Scale
                 \/ validation.solution.cp[i].v < -(10 * Scale))
    /\ \A k \in 1..Len(validation.warnings) :
          validation.warnings[k] \in WarningKinds
    /\ \A k, l \in 1..Len(validation.warnings) :
          k # l => validation.warnings[k] # validation.warnings[l]

\* C13: validateSolution returns its findings as data: a residual warning
\* iff residual > 1e-6, a CL-disagreement warning iff |clGamma - clPressure|
\* > 0.1, an extreme-Cp warning iff max Cp > 2 or min Cp < -10, a
\* thin-airfoil warning iff clGamma deviates largely from 2 pi alpha at a
\* small angle of attack, and nothing else.
C13_WarningsAreExactlyTheFindings ==
    validation.pc = "returned" =>
        /\ C13_AngleFreeWarnings
        /\ Warned("CL deviates significantly from thin-airfoil theory")
             <=> (LargeDeviation /\ SmallAngle)

---------------------------------------------------------------------------
(* Claims about panelize and the point loop, checked under GeomSpec        *)

\* C14: panelize returns exactly min(nPanels, points.length - 1) panels:
\* never more than requested, never more than the segments of the point
\* list, and it returns (clamping raises no error).
C14_PanelCountIsClamped ==
    /\ geo.pc \in {"returned", "kutta"} =>
          /\ Len(geo.geometry.panels)
               = Min(panelParams.nPanels, Len(geo.geometry.points) - 1)
          /\ Len(geo.geometry.panels) <= panelParams.nPanels
          /\ Len(geo.geometry.panels) <= Len(geo.geometry.points) - 1
    /\ geo.pc = "thrown" => ~IsFourDigits(nacaParams.digits)

\* more panels were requested than the loop has segments
C14_Witness_RequestClamped ==
    /\ geo.pc = "returned"
    /\ panelParams.nPanels > Len(geo.geometry.points) - 1
    /\ Len(geo.geometry.points) >= 5
    /\ Len(geo.geometry.panels) = Len(geo.geometry.points) - 1

\* C15: every AirfoilGeometry returned by createAirfoilGeometry has
\* points.length >= 3, for every accepted code and every point count the
\* function accepts.
C15_AtLeastThreePoints ==
    geo.pc \in {"returned", "kutta"} => Len(geo.geometry.points) >= 3

---------------------------------------------------------------------------
(* Claims about the influence kernels, checked under KernelSpec            *)

\* the field point lies on the panel's segment, in global coordinates: it
\* is collinear with the end points and between them
LiesOnPanel(point, panel) ==
    LET ex == panel.x2 - panel.x1
        ey == panel.y2 - panel.y1
        fx == point.x - panel.x1
        fy == point.y - panel.y1
    IN  /\ fx * ey - fy * ex = 0
        /\ fx * ex + fy * ey >= 0
        /\ fx * ex + fy * ey <= ex * ex + ey * ey

\* C16: sourceInfluence and vortexInfluence return the zero vector whenever
\* the field point lies on the panel, and for a panel of positive length
\* they evaluate the logarithm and the quotient only with both end-point
\* distances non-zero, so finite inputs never give NaN or infinity.
C16_ZeroOnPanelAndFiniteElsewhere ==
    (call.pc = "returned" /\ call.panel.length > 0) =>
        /\ LiesOnPanel(call.fieldPoint, call.panel)
              => call.result = Vector(0, 0)
        /\ call.formula =>
              /\ call.local.x * call.local.x
                   + call.local.y * call.local.y > 0
              /\ (call.local.x - call.panel.length)
                     * (call.local.x - call.panel.length)
                   + call.local.y * call.local.y > 0
        /\ ~call.result.nan

\* a kernel returned zero for a field point at an end of the panel
C16_Witness_ZeroAtPanelEnd ==
    /\ call.pc = "returned"
    /\ call.panel.length > 0
    /\ call.strength.v # 0
    /\ call.fieldPoint = Point(call.panel.x2, call.panel.y2)
    /\ call.result = Vector(0, 0)

---------------------------------------------------------------------------
(* Claims about isInsideAirfoil, checked under RaySpec                     *)

\* twice the signed area of the triangle a, b, c
Cross(a, b, c) == (b.x - a.x) * (c.y - a.y) - (b.y - a.y) * (c.x - a.x)

\* a polygon has three corners or more, and every corner of the loop
\* turns the same way
IsConvex(loop) ==
    LET n == Len(loop)
        turn(i) == Cross(At(loop, i), At(loop, (i + 1) % n),
                         At(loop, (i + 2) % n))
    IN  /\ n >= 3
        /\ \/ \A i \in 0..(n - 1) : turn(i) > 0
           \/ \A i \in 0..(n - 1) : turn(i) < 0

\* the point is strictly on the inner side of every edge
StrictlyInside(point, loop) ==
    LET n == Len(loop)
        side(i) == Cross(At(loop, i), At(loop, (i + 1) % n), point)
    IN  \/ \A i \in 0..(n - 1) : side(i) > 0
        \/ \A i \in 0..(n - 1) : side(i) < 0

OutsideBoundingBox(point, loop) ==
    \/ point.x < MinX(loop, Len(loop)) \/ point.x > MaxX(loop, Len(loop))
    \/ point.y < MinY(loop, Len(loop)) \/ point.y > MaxY(loop, Len(loop))

\* C17: for a convex polygon given as a vertex loop, isInsideAirfoil
\* reports a point strictly inside it (such as the centroid) inside, a
\* point outside its bounding box outside, and a query exactly on a vertex
\* returns a boolean.
C17_RayCastingOnConvexLoops ==
    (call.pc = "returned" /\ IsConvex(call.airfoilPoints)) =>
        /\ StrictlyInside(call.point, call.airfoilPoints)
              => call.result = TRUE
        /\ OutsideBoundingBox(call.point, call.airfoilPoints)
              => call.result = FALSE
        /\ (\E k \in 1..Len(call.airfoilPoints) :
               call.airfoilPoints[k] = call.point)
              => call.result \in BOOLEAN

\* the centroid of a convex loop was reported inside
C17_Witness_CentroidInside ==
    /\ call.pc = "returned"
    /\ IsConvex(call.airfoilPoints)
    /\ call.point = Centroid(call.airfoilPoints)
    /\ StrictlyInside(call.point, call.airfoilPoints)
    /\ call.result = TRUE

---------------------------------------------------------------------------
(* Claims about PanelTab, checked under TabSpec                            *)

\* C20: whenever a streamline field is held while showStreamlines is true,
\* a solution is stored and the field was generated from the stored
\* geometry and solution and from the flow conditions that solution was
\* solved with; a field whose geometry, solution or flow has been replaced
\* is never kept for display.
C20_DisplayedFieldMatchesStoredTriple ==
    (tab.pc = "mounted" /\ tab.streamlineField # Null /\ tab.showStreamlines)
        => /\ tab.solution # Null
           /\ tab.streamlineField.geometry = tab.geometry
           /\ tab.streamlineField.solution = tab.solution
           /\ tab.streamlineField.flow = tab.solution.flow

---------------------------------------------------------------------------
(* Claims about self-influence, checked under SelfSpec                     *)

\* C21: for every panel of a geometry built by panelize with a positive
\* offset factor epsilon and a positive chord, the kernel of the panel at
\* its own control point takes the closed-form branch and never the
\* on-panel zero branch: the offset epsilon * chord is never below the
\* singularity threshold.
C21_SelfInfluenceTakesClosedForm ==
    (/\ call.pc = "returned"
     /\ call.epsilon > 0
     /\ ChordEstimate(call.points) > 0) =>
        /\ call.formula
        /\ call.offset >= SingularityThreshold

---------------------------------------------------------------------------
(* Claims about the superposition, checked under SuperpositionSpec         *)

\* row i of the assembled system applied to (sigma, Gamma)
RowAtSolution ==
    RAdd(RSum([j \in 1..Len(call.row) |->
                 RMul(call.row[j], call.sigma[j])], Len(call.row)),
         RMul(call.bGamma, call.gamma))

\* C22: the assembler and the field evaluator use the same superposition:
\* for n >= 1 panels, row i of the assembled system applied to (sigma,
\* Gamma) minus its right-hand side equals the normal component at control
\* point i of totalVelocity(controlPoint_i, panels, sigma, Gamma,
\* freestream), source panel j weighted by sigma_j and every vortex panel
\* by Gamma / n; the tangential velocity the solver reconstructs is the
\* tangential component of the same velocity.
C22_AssemblerAndEvaluatorAgree ==
    call.pc = "returned" =>
        /\ Len(call.panels) >= 1
        /\ RSub(RowAtSolution, call.rhs)
             = RDot(call.velocity, At(call.panels, call.i).normal)
        /\ call.vt = RDot(call.velocity, At(call.panels, call.i).tangent)

\* a row of several panels with sources and circulation, whose vortex
\* column entry is not zero
C22_Witness_SourcesAndCirculation ==
    /\ call.pc = "returned"
    /\ Len(call.panels) >= 3
    /\ call.gamma # RInt(0)
    /\ call.bGamma # RInt(0)
    /\ \E j \in 1..Len(call.sigma) :
         call.sigma[j] # RInt(0) /\ call.row[j] # RInt(0)

---------------------------------------------------------------------------
(* Claims about solveLinearSystem as Gaussian elimination, checked under   *)
(* SolveSpec                                                               *)

\* every entry of A and b is a number
SystemIsFinite ==
    /\ \A i, j \in 1..Len(lin.A) : ~RIsNaN(lin.A[i][j])
    /\ \A i \in 1..Len(lin.b) : ~RIsNaN(lin.b[i])

\* entry (i, j) of A + lambda * I, 1-based
RegularizedEntry(i, j) ==
    IF i = j THEN RAdd(lin.A[i][j], lin.regularization) ELSE lin.A[i][j]

\* when the elimination starts the augmented matrix is [A + lambda * I | b]
C23_RegularizedOnce ==
    (lin.pc = "eliminate" /\ lin.k = 0) =>
        \A i \in 1..Len(lin.A) :
            /\ \A j \in 1..Len(lin.A) :
                  lin.augmented[i][j] = RegularizedEntry(i, j)
            /\ lin.augmented[i][Len(lin.A) + 1] = lin.b[i]

\* columns already eliminated hold zeros below the diagonal
C23_ZerosBelowDiagonal ==
    (lin.pc \in {"eliminate", "back", "solved", "returned"}
        /\ SystemIsFinite) =>
        \A i \in 1..Len(lin.augmented) :
            \A j \in 1..Len(lin.augmented) :
                (j < i /\ j <= lin.k) => lin.augmented[i][j] = RInt(0)

\* C23: whenever solveLinearSystem returns for a system of numbers, the
\* returned x satisfies (A + lambda * I) x = b in exact arithmetic: lambda
\* is added once to every diagonal entry before the elimination, the
\* elimination updates the right-hand-side column with the matrix columns
\* and leaves zeros below the diagonal, and the back substitution solves
\* the triangular system from the last row to the first.
C23_ReturnedVectorSolvesRegularizedSystem ==
    /\ C23_RegularizedOnce
    /\ C23_ZerosBelowDiagonal
    /\ (lin.pc \in {"solved", "returned"} /\ SystemIsFinite) =>
          \A i \in 1..Len(lin.A) :
              RSum([j \in 1..Len(lin.A) |->
                      RMul(RegularizedEntry(i, j), lin.x[j])], Len(lin.A))
                = lin.b[i]

\* a solve of three equations returned after eliminating non-zero entries
C23_Witness_ThreeEquationsSolved ==
    /\ lin.pc = "returned"
    /\ SystemIsFinite
    /\ Len(lin.x) = 3
    /\ \A i \in 1..3 : lin.x[i] # RInt(0)

\* row r holds the greatest absolute value of column k among rows
\* k..n-1, and no row before it holds as great a one
LowestGreatestInColumn(matrix, k, r) ==
    /\ \A i \in (r + 1)..(Len(matrix) - 1) :
          ~RGt(RAbs(Cell(matrix, i, k)), RAbs(Cell(matrix, r, k)))
    /\ \A i \in k..(r - 1) :
          RLt(RAbs(Cell(matrix, i, k)), RAbs(Cell(matrix, r, k)))

\* row i after rows k and r have changed places, right-hand side included
Exchanged(matrix, k, r, i) ==
    IF i = k THEN At(matrix, r)
    ELSE IF i = r THEN At(matrix, k)
    ELSE At(matrix, i)

\* the equation row with factor times the pivot equation taken off
RowMinus(row, factor, pivotRow) ==
    [j \in 1..Len(row) |-> RSub(row[j], RMul(factor, pivotRow[j]))]

\* one elimination step of a system of numbers: the pivot row is the
\* lowest row with the greatest entry, it changes places with row k, and
\* every equation is still there, rows below k with a multiple of the pivot
\* equation taken off
C24_StepPivotsAndKeepsEquations ==
    (lin.pc = "eliminate" /\ SystemIsFinite /\ lin' # lin) =>
        LET matrix == lin.augmented
            k == lin.k
            n == Len(matrix)
        IN  \E r \in k..(n - 1) :
              /\ LowestGreatestInColumn(matrix, k, r)
              /\ Len(lin'.augmented) = n
              /\ \A i \in 0..(n - 1) :
                    At(lin'.augmented, i) =
                       IF i <= k \/ lin'.pc = "thrown"
                       THEN Exchanged(matrix, k, r, i)
                       ELSE RowMinus(
                              Exchanged(matrix, k, r, i),
                              RDiv(At(Exchanged(matrix, k, r, i), k),
                                   Cell(matrix, r, k)),
                              At(matrix, r))

\* C24: at each elimination step k of solveLinearSystem the pivot row is
\* the lowest-indexed row among k..n-1 whose column-k entry has the
\* greatest absolute value; it is swapped into position k as a whole row,
\* right-hand side included, so the rows stay a permutation of eliminated
\* forms of the original equations: none is lost, none is duplicated.
C24_PartialPivotingKeepsEveryEquation ==
    [][C24_StepPivotsAndKeepsEquations]_vars

\* a step that swapped: after step 0 row 0 is a later equation of the
\* regularized system, and two rows tied for the greatest entry
C24_Witness_SwappedWithATie ==
    /\ lin.pc = "eliminate"
    /\ lin.k = 1
    /\ SystemIsFinite
    /\ Len(lin.A) = 3
    /\ \A j \in 1..3 : lin.augmented[1][j] = RegularizedEntry(2, j)
    /\ lin.augmented[1][4] = lin.b[2]
    /\ RAbs(RegularizedEntry(2, 1)) = RAbs(RegularizedEntry(3, 1))
    /\ RLt(RAbs(RegularizedEntry(1, 1)), RAbs(RegularizedEntry(2, 1)))

\* a step of the solver writes nothing to the matrix and the right-hand
\* side it was called with
C25_SolverLeavesArgumentsAlone ==
    lin.pc # "idle" => lin'.A = lin.A /\ lin'.b = lin.b

\* the residual rows of a returned solve of numbers: the returned x
\* solves the regularized system, so with the unregularized matrix row i
\* leaves exactly -lambda * x[i]
C25_ResidualOfAssembledSystem ==
    (lin.pc = "returned" /\ SystemIsFinite) =>
        /\ Len(lin.residualRows) = Len(lin.A)
        /\ \A i \in 1..Len(lin.A) :
              lin.residualRows[i] =
                 RNeg(RMul(lin.regularization, lin.x[i]))

\* C25: solveLinearSystem leaves the A and b it was called with unchanged
\* (it works on its own augmented copy), so the residual returned by
\* solvePanelMethod is the norm of (assembled matrix * solution - rhs)
\* with the matrix unregularized and its rows in their assembled order.
C25_ResidualUsesUntouchedSystem ==
    /\ [][C25_SolverLeavesArgumentsAlone]_vars
    /\ [](C25_ResidualOfAssembledSystem)

\* a returned solve whose copy was regularized, reordered and eliminated
\* while the residual rows are not all zero
C25_Witness_CopyChangedResidualKept ==
    /\ lin.pc = "returned"
    /\ SystemIsFinite
    /\ Len(lin.A) = 3
    /\ lin.augmented[1][1] # RegularizedEntry(1, 1)
    /\ CallerMatrixSharingRows(lin.A, lin.augmented) # lin.A
    /\ \E i \in 1..3 : lin.residualRows[i] # RInt(0)

\* C26: validateSolution returns isValid = false if and only if the
\* residual exceeds 1e-6; the other three warnings are appended without
\* changing isValid, so isValid = true can come with warnings.
C26_InvalidExactlyOnHighResidual ==
    validation.pc = "returned" =>
        LET residual == validation.solution.residual
        IN  (validation.isValid = FALSE)
              <=> (~residual.nan /\ residual.v > ResidualThreshold)

\* a valid result that carries all three of the other warnings
C26_Witness_ValidWithWarnings ==
    /\ validation.pc = "returned"
    /\ validation.isValid = TRUE
    /\ Len(validation.warnings) = 3

\* the arctangent term of a returned kernel call with its factor,
\* strength / (2 pi)
C27_ArctangentPart ==
    Mul(Quot(call.strength.v, TwoPiFx),
        PanelAngleTerm(call.local.x, call.local.y, call.panel.length))

\* the logarithmic term with its factor, strength / (4 pi)
C27_LogarithmPart ==
    Mul(Quot(call.strength.v, FourPiFx),
        PanelLogTerm(call.local.x, call.local.y, call.panel.length))

\* C27: in the panel-local frame of sourceInfluence the arctangent term is
\* the velocity component along the panel normal and the logarithmic term
\* the component along the panel; in vortexInfluence the arctangent term
\* is along the panel and the logarithmic term along the normal (either
\* sign of a term is accepted).
C27_ArctangentAcrossSourceAlongVortex ==
    (call.pc = "returned" /\ call.formula /\ ~call.result.nan) =>
        \E alongSign, acrossSign \in {-1, 1} :
            call.result =
               LocalToGlobal(
                 IF call.fn = "sourceInfluence"
                 THEN [x |-> alongSign * C27_LogarithmPart,
                       y |-> acrossSign * C27_ArctangentPart]
                 ELSE [x |-> alongSign * C27_ArctangentPart,
                       y |-> acrossSign * C27_LogarithmPart],
                 call.panel)

\* edge i of the loop, from its predecessor to point i, is level
C28_Horizontal(i) ==
    LET n == Len(call.airfoilPoints)
    IN  At(call.airfoilPoints, i).y
          = At(call.airfoilPoints, (i + n - 1) % n).y

\* C28: isInsideAirfoil never divides by zero: the quotient by
\* (pj.y - pi.y) is evaluated only for an edge with
\* (pi.y > y) != (pj.y > y); horizontal edges contribute no crossing, and
\* an empty point list yields false.
C28_NoDivisionByZero ==
    call.pc = "returned" =>
        LET n == Len(call.airfoilPoints)
            sloping == {i \in 0..(n - 1) : ~C28_Horizontal(i)}
            crossings ==
                {i \in sloping :
                   EdgeToggles(call.point, At(call.airfoilPoints, i),
                               At(call.airfoilPoints, (i + n - 1) % n))}
        IN  /\ 0 \notin call.divisors
            /\ call.result = (Cardinality(crossings) % 2 = 1)
            /\ n = 0 => call.result = FALSE

\* a call on a loop with a level edge at the height of the query, with a
\* quotient evaluated for another edge
C28_Witness_LevelEdgeAtQueryHeight ==
    /\ call.pc = "returned"
    /\ call.divisors # {}
    /\ \E i \in 0..(Len(call.airfoilPoints) - 1) :
          /\ C28_Horizontal(i)
          /\ At(call.airfoilPoints, i).y = call.point.y
          /\ At(call.airfoilPoints, i)
               # At(call.airfoilPoints,
                    (i + Len(call.airfoilPoints) - 1)
                       % Len(call.airfoilPoints))

\* C29: in PanelTab isComputing is true from the moment a solve is started
\* until that solve has completed or failed, under every interleaving of
\* Solve clicks, streamline toggles and parameter changes, and at most one
\* solve is in flight at any time.
C29_ComputingWhileSolveInFlight ==
    tab.pc = "mounted" =>
        /\ Len(tab.pending) > 0 => tab.isComputing
        /\ Len(tab.pending) <= 1

---------------------------------------------------------------------------
(* Claims about the demo store, checked under StoreSpec                    *)

\* every field of the store within its limits
C30_FieldsInRange ==
    store.pc = "created" =>
        /\ Len(store.nacaDigits) = 4
        /\ \A i \in 1..4 : store.nacaDigits[i] \in DigitChars
        /\ store.nPanels \in 60..240
        /\ store.nPanels \in 20..500
        /\ store.chord >= Scale \div 10 /\ store.chord <= 10 * Scale
        /\ store.velocity >= Scale /\ store.velocity <= 1000 * Scale
        /\ store.density >= Scale \div 10 /\ store.density <= 10 * Scale
        /\ store.angleOfAttack >= -30 /\ store.angleOfAttack <= 30
        /\ store.pathDiffPercent >= 0
        /\ store.pathDiffPercent <= 20 * Scale
        /\ store.span >= Scale /\ store.span <= 100 * Scale
        /\ store.area >= Scale /\ store.area <= 1000 * Scale

\* a setNacaDigits call with a string that is not four digits changes no
\* field
C30_RejectedDigitsChangeNothing ==
    (call'.pc = "returned" /\ call'.fn = "setNacaDigits"
       /\ ~(Len(call'.digits) = 4
            /\ \A i \in 1..4 : call'.digits[i] \in DigitChars))
      => store' = store

\* C30: after any sequence of store actions from the default state
\* nacaDigits is four decimal digits, nPanels an integer in [60, 240]
\* (inside the core's [20, 500]), chord in [0.1, 10], velocity in
\* [1, 1000], density in [0.1, 10], angleOfAttack in [-30, 30],
\* pathDiffPercent in [0, 20], span in [1, 100], area in [1, 1000]; a
\* setNacaDigits call with a string that is not four digits leaves the
\* whole state unchanged.
C30_StoreStaysInRange ==
    /\ [](C30_FieldsInRange)
    /\ [][C30_RejectedDigitsChangeNothing]_vars

\* a store driven to its limits whose last call was a rejected
\* setNacaDigits
C30_Witness_ClampedAndRejected ==
    /\ store.pc = "created"
    /\ call.pc = "returned"
    /\ call.fn = "setNacaDigits"
    /\ call.digits = <<"1", "2", "x", "4">>
    /\ store.nacaDigits = <<"2", "4", "1", "2">>
    /\ store.nPanels = 121
    /\ store.chord = 10 * Scale
    /\ store.velocity = Scale
    /\ store.area = 1000 * Scale
    /\ store.angleOfAttack = -30

===========================================================================
